---------------------------- MODULE Spec2Model ----------------------------
(***************************************************************************)
(* Financial statement table extraction (sohansputhran/                    *)
(* financial-analysis-assistant): the table locator of                     *)
(* src/src/extraction/table_parser.py and src/edgar_utils.py, the table    *)
(* normalizer of src/edgar_utils.py (SECCompliantExtractor) and the        *)
(* monetary value cleaner.                                                 *)
(*                                                                         *)
(* Text.  A Python str is a sequence of atoms.  An atom is one character   *)
(* that the code inspects individually (a digit, a blank, one of           *)
(* ( ) , $ . - : _) or a whole word of letters ("net", "Unnamed", ...).    *)
(* Substring tests are tests for a contiguous run of atoms; a word is      *)
(* never split.                                                            *)
(*                                                                         *)
(* Frames.  A pandas DataFrame is [columns, numeric, rows]: the column     *)
(* labels, for each column whether its dtype is numeric (not 'object'),    *)
(* and the rows of cells.  A cell is a str or NaN (a missing value: NaN    *)
(* or None).                                                               *)
(***************************************************************************)
EXTENDS Integers, Sequences, FiniteSets, TLC

VARIABLES
    pc,         \* position of the running operation
    value,      \* _clean_monetary_value: the cell text passed in
    cleaned,    \* _clean_monetary_value: the value returned
    table,      \* _extract_table_data: the raw table passed in
    df,         \* _extract_table_data / _clean_dataframe: the frame in hand
    in_try,     \* _extract_table_data: control is inside the try block
    error,      \* the exception that left _extract_table_data, or "none"
    csv,        \* the CSV files _clean_dataframe writes to the working
                \* directory: file name -> frame last written
    copy,       \* which copy of the locator runs: "table_parser" or
                \* "edgar_utils"
    soup,       \* the parsed document
    stmt_idx,   \* _parse_financial_tables: position of stmt_type in the
                \* keyword dict
    tbl_idx,    \* _parse_financial_tables: position of table in tables
    best_table, \* _parse_financial_tables: position in tables of the best
                \* table so far, 0 for None
    best_score, \* _parse_financial_tables: a float
    score,      \* _parse_financial_tables: the float last computed
    results,    \* _parse_financial_tables: stmt_type -> frame
    ret,        \* what the entry point returned
    unpacked,   \* app.py: what is_df, bs_df, cf_df are bound to
    max_retries, \* download_filing_html: the argument
    attempt,    \* download_filing_html: the loop variable
    responses,  \* the answers to the HTTP requests issued so far, in order
    fetched,    \* download_filing_html: what the call returned or raised
    clock,      \* datetime.now(), in seconds
    disk,       \* data/processed: folder name -> meta.json and CSV files
    saved,      \* the save_tables_bundle calls so far: bundle and folder
    loaded,     \* what load_latest_tables_bundle returned
    generated,  \* clean_with_gemini: the answers of model.generate_content
                \* so far, in order
    payload,    \* clean_with_gemini: what the call returned or raised
    running,    \* two instances at work: the one whose locals are table,
                \* df, in_try, error and pc; 0 with a single instance
    suspended,  \* two instances at work: the locals of the other one
    snapshot,   \* the CSV files as they were when the running instance
                \* took over
    written_by  \* file name -> the instances that wrote it before that

moneyVars == <<value, cleaned>>
normVars == <<table, df, in_try, error, csv>>
locVars ==
    <<copy, soup, stmt_idx, tbl_idx, best_table, best_score, score, results,
      ret, unpacked>>
fetchVars == <<max_retries, attempt, responses, fetched>>
ioVars == <<clock, disk, saved, loaded>>
llmVars == <<generated, payload>>
parVars == <<running, suspended, snapshot, written_by>>
extVars == <<fetchVars, ioVars, llmVars, parVars>>
otherThanFetch == <<ioVars, llmVars, parVars>>
otherThanIo == <<fetchVars, llmVars, parVars>>
otherThanLlm == <<fetchVars, ioVars, parVars>>
otherThanPar == <<fetchVars, ioVars, llmVars>>
vars ==
    <<pc, value, cleaned, table, df, in_try, error, csv, copy, soup,
      stmt_idx, tbl_idx, best_table, best_score, score, results, ret,
      unpacked, extVars>>

-----------------------------------------------------------------------------
(* Bounds *)

\* longest generated cell text, in atoms
MaxStrLen == 3

\* most cells of a generated raw table
MaxCells == 5

-----------------------------------------------------------------------------
(* Python str operations on atom sequences *)

Digits == {"0", "1", "2", "3", "4", "5", "6", "7", "8", "9"}

\* characters matched by \s and removed by str.strip()
Whitespace == {" ", "\n", "\t"}

\* a missing cell (NaN / None), distinct from every str
NaN == <<"<NaN>">>

RECURSIVE LStrip(_)
LStrip(s) ==
    IF s # <<>> /\ Head(s) \in Whitespace THEN LStrip(Tail(s)) ELSE s

RECURSIVE RStrip(_)
RStrip(s) ==
    IF s # <<>> /\ s[Len(s)] \in Whitespace
    THEN RStrip(SubSeq(s, 1, Len(s) - 1))
    ELSE s

\* str.strip()
Strip(s) == RStrip(LStrip(s))

\* re.sub(r'[<chars>]', '', s)
RemoveChars(s, chars) == SelectSeq(s, LAMBDA a : a \notin chars)

\* c in s, for a single character c
HasChar(s, c) == \E i \in 1..Len(s) : s[i] = c

\* sub in s
Contains(s, sub) ==
    \E i \in 0..(Len(s) - Len(sub)) :
        \A j \in 1..Len(sub) : s[i + j] = sub[j]

\* str(x).isdigit()
IsDigit(s) == s # <<>> /\ \A i \in 1..Len(s) : s[i] \in Digits

\* str(value) of a cell: 'nan' for a missing one
AsTypeStr(c) == IF c = NaN THEN <<"nan">> ELSE c

-----------------------------------------------------------------------------
(* _clean_monetary_value *)

CleanMonetaryValue_NoMinus(v) ==
    IF v = NaN \/ v \in {<<"nan">>, <<"None">>, <<>>}
    THEN <<>>
    ELSE LET s == Strip(v)
             p == IF HasChar(s, "(") /\ HasChar(s, ")")
                  THEN RemoveChars(s, {"(", ")", ","})
                  ELSE s
         IN  RemoveChars(p, {"$", ","})

CleanMonetaryValue(v) ==
    IF v = NaN \/ v \in {<<"nan">>, <<"None">>, <<>>}
    THEN <<>>
    ELSE LET s == Strip(v)
             p == IF HasChar(s, "(") /\ HasChar(s, ")")
                  THEN <<"-">> \o RemoveChars(s, {"(", ")", ","})
                  ELSE s
         IN  RemoveChars(p, {"$", ","})


-----------------------------------------------------------------------------
(* pandas DataFrame operations *)

\* pd.DataFrame(): no columns, no rows
EmptyFrame == [columns |-> <<>>, numeric |-> <<>>, rows |-> <<>>]

NCols(frame) == Len(frame.columns)

NRows(frame) == Len(frame.rows)

\* df.empty: some axis has length 0
IsEmpty(frame) == NCols(frame) = 0 \/ NRows(frame) = 0

\* the elements of s at the positions in keep, in order
SelectIdx(s, keep) ==
    LET F[i \in 0..Len(s)] ==
            IF i = 0 THEN <<>>
            ELSE IF i \in keep THEN Append(F[i - 1], s[i]) ELSE F[i - 1]
    IN  F[Len(s)]

\* df.loc[:, mask]: the columns at the positions in keep
SelectCols(frame, keep) ==
    [columns |-> SelectIdx(frame.columns, keep),
     numeric |-> SelectIdx(frame.numeric, keep),
     rows    |-> [r \in 1..NRows(frame) |-> SelectIdx(frame.rows[r], keep)]]

\* row.notna().sum()
NotNaCount(row) == Cardinality({j \in 1..Len(row) : row[j] # NaN})

\* df.dropna(how='all'): drop the rows whose cells are all missing
DropNaRows(frame) ==
    [frame EXCEPT !.rows = SelectSeq(frame.rows, LAMBDA r : NotNaCount(r) > 0)]

\* df.dropna(axis=1, how='all'): drop the columns whose cells are all missing
DropNaCols(frame) ==
    SelectCols(frame, {j \in 1..NCols(frame) :
                        \E r \in 1..NRows(frame) : frame.rows[r][j] # NaN})

\* str(i) for an int i >= 0
RECURSIVE IntToStr(_)
IntToStr(i) ==
    LET d == <<"0", "1", "2", "3", "4", "5", "6", "7", "8", "9">>
    IN  IF i < 10 THEN <<d[i + 1]>>
        ELSE Append(IntToStr(i \div 10), d[(i % 10) + 1])

\* a column label that is the int i (a RangeIndex label), distinct from the
\* str label str(i)
IntLabel(i) == <<"<int>">> \o IntToStr(i)

IsIntLabel(col) == col # <<>> /\ Head(col) = "<int>"

\* str(col) of a column label
LabelStr(col) == IF IsIntLabel(col) THEN Tail(col) ELSE col

\* re.sub(r'\s+', ' ', s): every run of whitespace becomes one blank
RECURSIVE CollapseWhitespace(_)
CollapseWhitespace(s) ==
    IF s = <<>> THEN <<>>
    ELSE IF Head(s) \in Whitespace
         THEN <<" ">> \o CollapseWhitespace(LStrip(s))
         ELSE <<Head(s)>> \o CollapseWhitespace(Tail(s))

-----------------------------------------------------------------------------
(* _extract_table_data: the two ways of reading a raw table.  A raw table  *)
(* is the sequence of its <tr> rows, each the sequence of the texts of its *)
(* <td> cells; rows may differ in length.                                  *)

\* the cell texts pandas reads as a missing value (its default na_values)
NaTokens == {<<>>, <<"N/A">>, <<"nan">>, <<"None">>}

\* a cell text pandas converts to a number: an optional sign, digits with
\* thousands separators, an optional decimal part
NumberText(s) ==
    LET body == IF s # <<>> /\ Head(s) = "-" THEN Tail(s) ELSE s
    IN  /\ \E i \in 1..Len(body) : body[i] \in Digits
        /\ \A i \in 1..Len(body) : body[i] \in Digits \cup {",", "."}
        /\ Cardinality({i \in 1..Len(body) : body[i] = "."}) <= 1
        /\ \A i, j \in 1..Len(body) :
               (body[i] = "." /\ body[j] = ",") => j < i

MaxRowLen(tbl) ==
    LET F[i \in 0..Len(tbl)] ==
            IF i = 0 THEN 0
            ELSE IF Len(tbl[i]) > F[i - 1] THEN Len(tbl[i]) ELSE F[i - 1]
    IN  F[Len(tbl)]

\* pd.read_html finds nothing to parse in a table without any cell
ReadHtmlNoTables(tbl) == MaxRowLen(tbl) = 0

\* one cell as pd.read_html reads it: whitespace collapsed and trimmed,
\* na_values as NaN, thousands separators removed from numbers
ReadHtmlCell(text) ==
    LET t == Strip(CollapseWhitespace(text))
    IN  IF t \in NaTokens THEN NaN
        ELSE IF NumberText(t) THEN RemoveChars(t, {","})
        ELSE t

\* dfs[0] of pd.read_html(StringIO(str(table))) for a table of <td> rows:
\* RangeIndex column labels, short rows padded, a column is numeric when
\* none of its cells is text.  (A numeric cell is kept as its digits.)
ReadHtml(tbl) ==
    LET n == MaxRowLen(tbl)
        cell(r, j) == IF j <= Len(tbl[r]) THEN ReadHtmlCell(tbl[r][j])
                      ELSE NaN
    IN  [columns |-> [j \in 1..n |-> IntLabel(j - 1)],
         numeric |-> [j \in 1..n |->
                        \A r \in 1..Len(tbl) :
                            \/ cell(r, j) = NaN
                            \/ NumberText(cell(r, j))],
         rows    |-> [r \in 1..Len(tbl) |-> [j \in 1..n |-> cell(r, j)]]]

\* the rows list of the manual extraction: stripped cell texts, rows
\* without a cell skipped
ManualRows(tbl) ==
    LET kept == SelectSeq(tbl, LAMBDA row : row # <<>>)
    IN  [r \in 1..Len(kept) |-> [j \in 1..Len(kept[r]) |-> Strip(kept[r][j])]]

\* pd.DataFrame(rows[1:], columns=rows[0]) raises ValueError when the widest
\* data row has not exactly as many cells as the header row
ManualFrameRaises(rows) ==
    /\ Len(rows) > 1
    /\ MaxRowLen(Tail(rows)) # Len(rows[1])

\* pd.DataFrame(rows[1:], columns=rows[0]): short rows padded with None,
\* every column of dtype object
ManualFrame(rows) ==
    LET n == Len(rows[1])
        data == Tail(rows)
    IN  [columns |-> rows[1],
         numeric |-> [j \in 1..n |-> FALSE],
         rows    |-> [r \in 1..Len(data) |->
                        [j \in 1..n |-> IF j <= Len(data[r]) THEN data[r][j]
                                        ELSE NaN]]]

-----------------------------------------------------------------------------
(* _clean_dataframe: the stages *)

\* df.dropna(how='all').dropna(axis=1, how='all').reset_index(drop=True)
DropEmptyRowsAndColumns(frame) == DropNaCols(DropNaRows(frame))

\* the text of a header fragment: str(col) if pd.notna(col) else ""
FragmentStr(c) == IF c = NaN THEN <<>> ELSE c

\* one combined column name of _consolidate_headers (i counts from 0)
CombinedName(i, col1, col2) ==
    LET s1 == Strip(FragmentStr(col1))
        s2 == Strip(FragmentStr(col2))
    IN  IF s1 # <<>> /\ s2 # <<>> /\ s1 # s2 THEN s1 \o <<" ">> \o s2
        ELSE IF s2 # <<>> THEN s2
        ELSE IF s1 # <<>> THEN s1
        ELSE <<"Column", "_">> \o IntToStr(i)

\* the condition under which _consolidate_headers rewrites the header
ConsolidateApplies(frame) ==
    /\ NRows(frame) > 1
    /\ NotNaCount(frame.rows[1]) <= 2
    /\ NotNaCount(frame.rows[2]) > NotNaCount(frame.rows[1])

\* _consolidate_headers
ConsolidateHeaders(frame) ==
    IF ConsolidateApplies(frame)
    THEN [frame EXCEPT
            !.columns = [j \in 1..NCols(frame) |->
                            CombinedName(j - 1, frame.rows[1][j], frame.rows[2][j])],
            !.rows = SubSeq(frame.rows, 3, NRows(frame))]
    ELSE frame

\* the values of column j
ColumnValues(frame, j) == [r \in 1..NRows(frame) |-> frame.rows[r][j]]

\* the positions of the columns labelled col
Labelled(frame, col) == {j \in 1..NCols(frame) : frame.columns[j] = col}

\* df[a].equals(df[b]) for labels a and b that exist: False when df[a] is a
\* DataFrame (a labels several columns) and df[b] a Series, or the reverse
LabelEquals(frame, a, b) ==
    /\ Cardinality(Labelled(frame, a)) = Cardinality(Labelled(frame, b))
    /\ \/ Cardinality(Labelled(frame, a)) > 1 /\ a = b
       \/ /\ Cardinality(Labelled(frame, a)) = 1
          /\ LET ja == CHOOSE j \in Labelled(frame, a) : TRUE
                 jb == CHOOSE j \in Labelled(frame, b) : TRUE
             IN  /\ ColumnValues(frame, ja) = ColumnValues(frame, jb)
                 /\ frame.numeric[ja] = frame.numeric[jb]

\* the loop of _remove_duplicate_columns over the first n columns:
\* seen maps a stripped name to its counter, new is new_columns, raised
\* tells that df[seen_columns[col_str]] raised KeyError (no column has the
\* int counter as its label)
RECURSIVE DuplicateScan(_, _)
DuplicateScan(frame, n) ==
    IF n = 0 THEN [seen |-> <<>>, new |-> <<>>, raised |-> FALSE]
    ELSE
      LET prev == DuplicateScan(frame, n - 1)
          col == frame.columns[n]
          col_str == Strip(LabelStr(col))
          hits == {k \in 1..Len(prev.seen) : prev.seen[k][1] = col_str}
      IN  IF prev.raised THEN prev
          ELSE IF hits = {}
          THEN [prev EXCEPT !.seen = Append(@, <<col_str, 0>>),
                            !.new = Append(@, col_str)]
          ELSE
            LET k == CHOOSE k \in hits : TRUE
                count == prev.seen[k][2]
            IN  IF Labelled(frame, IntLabel(count)) = {}
                THEN [prev EXCEPT !.raised = TRUE]
                ELSE IF ~LabelEquals(frame, col, IntLabel(count))
                THEN [prev EXCEPT
                        !.seen[k] = <<col_str, count + 1>>,
                        !.new = Append(@, col_str \o <<"_", "duplicate", "_">>
                                            \o IntToStr(count + 1))]
                ELSE [prev EXCEPT
                        !.new = Append(@, <<"__REMOVE__">> \o col_str)]

\* _remove_duplicate_columns raises KeyError
RemoveDuplicateColumnsRaises(frame) == DuplicateScan(frame, NCols(frame)).raised

\* _remove_duplicate_columns when it does not raise: rename, drop the
\* columns marked __REMOVE__, then drop every column whose name occurred
\* before (~df.columns.duplicated())
RemoveDuplicateColumns(frame) ==
    LET new == DuplicateScan(frame, NCols(frame)).new
        renamed == [frame EXCEPT !.columns = new]
        unmarked == SelectCols(renamed,
                        {j \in 1..Len(new) :
                            ~(new[j] # <<>> /\ Head(new[j]) = "__REMOVE__")})
    IN  SelectCols(unmarked,
            {j \in 1..NCols(unmarked) :
                \A i \in 1..(j - 1) : unmarked.columns[i] # unmarked.columns[j]})

\* re.sub(prefix + r'\d+', '', s): remove every prefix that is followed by
\* digits, together with those digits
RECURSIVE DropDigits(_)
DropDigits(s) ==
    IF s # <<>> /\ Head(s) \in Digits THEN DropDigits(Tail(s)) ELSE s

RECURSIVE RemoveArtifact(_, _)
RemoveArtifact(s, prefix) ==
    IF s = <<>> THEN <<>>
    ELSE IF /\ Len(s) > Len(prefix)
            /\ SubSeq(s, 1, Len(prefix)) = prefix
            /\ s[Len(prefix) + 1] \in Digits
         THEN RemoveArtifact(DropDigits(SubSeq(s, Len(prefix) + 1, Len(s))),
                             prefix)
         ELSE <<Head(s)>> \o RemoveArtifact(Tail(s), prefix)

\* one name of _clean_column_names (i counts from 0)
CleanColumnName(i, col) ==
    LET s == Strip(CollapseWhitespace(
                 RemoveArtifact(RemoveArtifact(Strip(LabelStr(col)),
                                               <<"Unnamed", ":", " ">>),
                                <<"level", "_">>)))
    IN  IF s = <<>> \/ IsDigit(s) \/ s \in {<<"nan">>, <<"None">>}
        THEN IF i = 0 THEN <<"Description">>
             ELSE <<"Column", "_">> \o IntToStr(i)
        ELSE s

\* df.columns = self._clean_column_names(df.columns)
CleanColumnNames(frame) ==
    [frame EXCEPT !.columns = [j \in 1..NCols(frame) |->
                                CleanColumnName(j - 1, frame.columns[j])]]

\* str.lower() of one atom: the capitalised words of the model's texts
LowerAtom(a) ==
    CASE a = "Net" -> "net"
      [] a = "Income" -> "income"
      [] a = "Revenue" -> "revenue"
      [] a = "Cash" -> "cash"
      [] a = "As" -> "as"
      [] a = "Year" -> "year"
      [] a = "Ended" -> "ended"
      [] a = "Consolidated" -> "consolidated"
      [] a = "CONSOLIDATED" -> "consolidated"
      [] a = "STATEMENTS" -> "statements"
      [] a = "OF" -> "of"
      [] a = "INCOME" -> "income"
      [] a = "Total" -> "total"
      [] a = "Assets" -> "assets"
      [] a = "Operations" -> "operations"
      [] a = "Unaudited" -> "unaudited"
      [] a = "Operating" -> "operating"
      [] a = "Gross" -> "gross"
      [] a = "Current" -> "current"
      [] a = "Financing" -> "financing"
      [] a = "Earnings" -> "earnings"
      [] OTHER -> a

\* str.lower()
Lower(s) == [i \in 1..Len(s) |-> LowerAtom(s[i])]

\* ' '.join(parts)
RECURSIVE JoinWithBlank(_)
JoinWithBlank(parts) ==
    IF parts = <<>> THEN <<>>
    ELSE IF Len(parts) = 1 THEN parts[1]
    ELSE parts[1] \o <<" ">> \o JoinWithBlank(Tail(parts))

\* header_indicators of _remove_header_rows
HeaderIndicators ==
    { <<"year", " ", "ended">>, <<"months", " ", "ended">>, <<"as", " ", "of">>,
      <<"for", " ", "the">>, <<"in", " ", "millions">>,
      <<"in", " ", "thousands">>, <<"except", " ", "per", " ", "share">>,
      <<"unaudited">>, <<"audited">>, <<"consolidated">>,
      <<"see", " ", "accompanying">> }

\* a separator rule that asks for one non-blank value or more
IsSeparatorRow_SingleValue(row) ==
    LET filled == {j \in 1..Len(row) : row[j] # NaN /\ Strip(row[j]) # <<>>}
    IN  /\ Cardinality(filled) >= 1
        /\ \A i, j \in filled : Strip(row[i]) = Strip(row[j])

\* the row is a separator row: its non-blank values, more than one, are
\* all the same
IsSeparatorRow(row) ==
    LET filled == {j \in 1..Len(row) : row[j] # NaN /\ Strip(row[j]) # <<>>}
    IN  /\ Cardinality(filled) > 1
        /\ \A i, j \in filled : Strip(row[i]) = Strip(row[j])

\* the row restates a heading: its text contains a header indicator
IsHeaderRow(row) ==
    LET row_text == Lower(JoinWithBlank(SelectSeq(row, LAMBDA v : v # NaN)))
    IN  \E indicator \in HeaderIndicators : Contains(row_text, indicator)

\* _remove_header_rows
RemoveHeaderRows(frame) ==
    IF IsEmpty(frame) THEN frame
    ELSE [frame EXCEPT !.rows = SelectSeq(frame.rows,
                        LAMBDA row : ~IsSeparatorRow(row) /\ ~IsHeaderRow(row))]

\* some name labels more than one column
HasDuplicateNames(frame) ==
    \E i, j \in 1..NCols(frame) : i # j /\ frame.columns[i] = frame.columns[j]

\* the monetary loop of _clean_dataframe raises AttributeError: for a name
\* that labels several columns df[col] is a DataFrame, which has no dtype
CleanMonetaryValuesRaises(frame) == HasDuplicateNames(frame)

\* for col in df.columns: if df[col].dtype == 'object':
\*     df[col] = df[col].astype(str).apply(self._clean_monetary_value)
CleanMonetaryValues(frame) ==
    [frame EXCEPT !.rows =
        [r \in 1..NRows(frame) |->
            [j \in 1..NCols(frame) |->
                IF frame.numeric[j] THEN frame.rows[r][j]
                ELSE CleanMonetaryValue(AsTypeStr(frame.rows[r][j]))]]]

\* a threshold that may fall to 1
MinCells_AtLeastOne(frame) ==
    IF NCols(frame) \div 3 > 1 THEN NCols(frame) \div 3 ELSE 1

\* min_cells of _remove_sparse_rows
MinCells(frame) == IF NCols(frame) \div 3 > 2 THEN NCols(frame) \div 3 ELSE 2

\* _remove_sparse_rows
RemoveSparseRows(frame) ==
    IF IsEmpty(frame) THEN frame
    ELSE [frame EXCEPT !.rows = SelectSeq(frame.rows,
                        LAMBDA row : NotNaCount(row) >= MinCells(frame))]

-----------------------------------------------------------------------------
(* Python float arithmetic of _score_table_relevance.  A float is an IEEE  *)
(* double; the doubles that occur lie in [0, 8) and are multiples of       *)
(* 2^-56, so the double x * 2^-56 is held as <<hi, lo>> with               *)
(* x = hi * 2^28 + lo.  A sum or product is computed exactly and rounded   *)
(* to 53 significant bits, ties to even.                                   *)

Limb == 2^28

\* the doubles nearest to 0.4 and 0.1
Float04 == <<107374182, 107374184>>

Float01 == <<26843545, 161061274>>

Float0 == <<0, 0>>

RECURSIVE BitLength(_)
BitLength(n) == IF n = 0 THEN 0 ELSE 1 + BitLength(n \div 2)

ExactSum(x, y) ==
    <<x[1] + y[1] + ((x[2] + y[2]) \div Limb), (x[2] + y[2]) % Limb>>

\* round to nearest double, ties to even
RoundToDouble(x) ==
    LET bits == IF x[1] > 0 THEN 28 + BitLength(x[1]) ELSE BitLength(x[2])
    IN  IF bits <= 53 THEN x
        ELSE LET ulp == 2^(bits - 53)
                 rest == x[2] % ulp
                 down == <<x[1], x[2] - rest>>
             IN  IF \/ 2 * rest > ulp
                    \/ 2 * rest = ulp /\ (x[2] \div ulp) % 2 = 1
                 THEN ExactSum(down, <<0, ulp>>)
                 ELSE down

\* x + y
FloatAdd(x, y) == RoundToDouble(ExactSum(x, y))

RECURSIVE ExactTimes(_, _)
ExactTimes(k, x) ==
    IF k = 0 THEN Float0 ELSE ExactSum(ExactTimes(k - 1, x), x)

\* k * x for an int (or bool) k
FloatTimesInt(k, x) == RoundToDouble(ExactTimes(k, x))

\* x > y
FloatGreater(x, y) == x[1] > y[1] \/ (x[1] = y[1] /\ x[2] > y[2])

\* x / 8: exact, a division by a power of two; the quotient is held in
\* units of 2^-59 and so by the same pair
FloatDiv8(x) == x

\* the double nearest to 0.3, in the units of a quotient by 8
Float03 == <<644245094, 107374176>>

-----------------------------------------------------------------------------
(* The document and the context of a table.  A document is a sequence of   *)
(* blocks: a paragraph of text, a table, or a gap (a long stretch of       *)
(* markup and text that holds no keyword and no amount).  Its              *)
(* serialization str(soup) is the sequence of the atoms of its blocks      *)
(* between tag atoms; an atom is as wide as it has characters.             *)

\* context_chars of _get_table_context
ContextChars == 1000

\* the width of a gap, in characters
GapChars == 2500

TextBlock(text) == [kind |-> "text", text |-> text, rows |-> <<>>]

TableBlock(rows) == [kind |-> "table", text |-> <<>>, rows |-> rows]

GapBlock == [kind |-> "gap", text |-> <<>>, rows |-> <<>>]

TagAtoms ==
    {"<p>", "</p>", "<table>", "</table>", "<tr>", "</tr>", "<td>", "</td>",
     "<gap>"}

RECURSIVE Flatten(_)
Flatten(seqs) ==
    IF seqs = <<>> THEN <<>> ELSE Head(seqs) \o Flatten(Tail(seqs))

\* str(table)
TableHtml(rows) ==
    <<"<table>">>
    \o Flatten([r \in 1..Len(rows) |->
            <<"<tr>">>
            \o Flatten([j \in 1..Len(rows[r]) |->
                    <<"<td>">> \o rows[r][j] \o <<"</td>">>])
            \o <<"</tr>">>])
    \o <<"</table>">>

BlockHtml(b) ==
    IF b.kind = "table" THEN TableHtml(b.rows)
    ELSE IF b.kind = "text" THEN <<"<p>">> \o b.text \o <<"</p>">>
    ELSE <<"<gap>">>

\* str(soup)
SoupHtml(document) ==
    Flatten([b \in 1..Len(document) |-> BlockHtml(document[b])])

\* soup.find_all('table'): the positions of the table blocks, in order
FindAllTables(document) ==
    SelectIdx([b \in 1..Len(document) |-> b],
              {b \in 1..Len(document) : document[b].kind = "table"})

\* len() of one atom of a serialization
AtomWidth(a) == IF a = "<gap>" THEN GapChars ELSE Len(a)

\* the offsets at which the atoms lo..hi of a serialization end, atom lo
\* starting at offset base
RECURSIVE EndOffsets(_, _, _, _)
EndOffsets(html, lo, hi, base) ==
    IF lo > hi THEN <<>>
    ELSE IF lo = hi THEN <<base + AtomWidth(html[lo])>>
    ELSE LET mid == (lo + hi) \div 2
             left == EndOffsets(html, lo, mid, base)
         IN  left \o EndOffsets(html, mid + 1, hi, left[Len(left)])

\* soup_html.find(table_html) as the number of atoms before the first
\* occurrence, -1 when there is none
FindHtml(soup_html, table_html) ==
    LET at == {i \in 0..(Len(soup_html) - Len(table_html)) :
                  SubSeq(soup_html, i + 1, i + Len(table_html)) = table_html}
    IN  IF at = {} THEN -1 ELSE CHOOSE i \in at : \A k \in at : i <= k

\* BeautifulSoup(html).get_text(): the atoms that are not tags
GetText(html) == SelectSeq(html, LAMBDA a : a \notin TagAtoms)

\* a context of the text before and after the table, without the table
GetTableContext_AroundOnly(rows, document) ==
    LET table_html == TableHtml(rows)
        soup_html == SoupHtml(document)
        found == FindHtml(soup_html, table_html)
        ends == EndOffsets(soup_html, 1, Len(soup_html), 0)
        starts == [i \in 1..Len(soup_html) |->
                      IF i = 1 THEN 0 ELSE ends[i - 1]]
        table_pos == IF found = 0 THEN 0 ELSE ends[found]
        table_len == ends[found + Len(table_html)] - table_pos
        total == IF soup_html = <<>> THEN 0 ELSE ends[Len(soup_html)]
        start == IF table_pos - ContextChars > 0
                 THEN table_pos - ContextChars ELSE 0
        end == IF table_pos + table_len + ContextChars < total
               THEN table_pos + table_len + ContextChars ELSE total
        inside == {i \in 1..Len(soup_html) :
                      starts[i] >= start /\ ends[i] <= end}
        first == CHOOSE i \in inside : \A k \in inside : i <= k
        last == CHOOSE i \in inside : \A k \in inside : i >= k
    IN  IF found = -1 \/ inside = {} THEN <<>>
        ELSE Lower(GetText(SubSeq(soup_html, first, found)
                           \o SubSeq(soup_html, found + Len(table_html) + 1,
                                     last)))

\* _get_table_context: the lowercased text of the window of
\* ContextChars characters around the first occurrence of the table's
\* serialization.  An atom cut by an end of the window is left out.
GetTableContext(rows, document) ==
    LET table_html == TableHtml(rows)
        soup_html == SoupHtml(document)
        found == FindHtml(soup_html, table_html)
        ends == EndOffsets(soup_html, 1, Len(soup_html), 0)
        starts == [i \in 1..Len(soup_html) |->
                      IF i = 1 THEN 0 ELSE ends[i - 1]]
        table_pos == IF found = 0 THEN 0 ELSE ends[found]
        table_len == ends[found + Len(table_html)] - table_pos
        total == IF soup_html = <<>> THEN 0 ELSE ends[Len(soup_html)]
        start == IF table_pos - ContextChars > 0
                 THEN table_pos - ContextChars ELSE 0
        end == IF table_pos + table_len + ContextChars < total
               THEN table_pos + table_len + ContextChars ELSE total
        inside == {i \in 1..Len(soup_html) :
                      starts[i] >= start /\ ends[i] <= end}
        first == CHOOSE i \in inside : \A k \in inside : i <= k
        last == CHOOSE i \in inside : \A k \in inside : i >= k
    IN  IF found = -1 \/ inside = {} THEN <<>>
        ELSE Lower(GetText(SubSeq(soup_html, first, last)))

-----------------------------------------------------------------------------
(* _score_table_relevance *)

Categories == <<"income_statement", "balance_sheet", "cash_flow">>

\* financial_keywords of table_parser._parse_financial_tables
FinancialKeywords ==
    [income_statement |->
        << <<"income", " ", "statements">>,
           <<"consolidated", " ", "statements", " ", "of", " ", "income">>,
           <<"statements", " ", "of", " ", "operations">>,
           <<"revenue">>,
           <<"net", " ", "income">>,
           <<"operating", " ", "income">>,
           <<"gross", " ", "margin">>,
           <<"earnings", " ", "per", " ", "share">> >>,
     balance_sheet |->
        << <<"balance", " ", "sheets">>,
           <<"consolidated", " ", "balance", " ", "sheets">>,
           <<"total", " ", "assets">>,
           <<"total", " ", "liabilities">>,
           <<"stockholders", " ", "equity">>,
           <<"current", " ", "assets">>,
           <<"current", " ", "liabilities">>,
           <<"long", "-", "term", " ", "debt">> >>,
     cash_flow |->
        << <<"cash", " ", "flows", " ", "statements">>,
           <<"consolidated", " ", "statements", " ", "of", " ", "cash", " ",
             "flows">>,
           <<"cash", " ", "from", " ", "operations">>,
           <<"operating", " ", "activities">>,
           <<"operations">>,
           <<"income", " ", "tax">>,
           <<"net", " ", "income">>,
           <<"financing">> >>]

\* the statement types a copy of the locator looks for: all three in
\* table_parser.py, income_statement alone in edgar_utils.py (the other two
\* entries are commented out)
StatementTypes(which) ==
    IF which = "table_parser" THEN Categories ELSE <<"income_statement">>

\* sum(1 for keyword in keywords if keyword in text)
RECURSIVE KeywordHits(_, _)
KeywordHits(keywords, text) ==
    IF keywords = <<>> THEN 0
    ELSE (IF Contains(text, Head(keywords)) THEN 1 ELSE 0)
         + KeywordHits(Tail(keywords), text)

\* re.search(r'\$[\d,]+|\([\d,]+\)', table_text)
HasMoneyPattern(text) ==
    \E i \in 1..(Len(text) - 1) :
        \/ text[i] = "$" /\ text[i + 1] \in Digits \cup {","}
        \/ /\ text[i] = "("
           /\ \E j \in (i + 2)..Len(text) :
                /\ text[j] = ")"
                /\ \A k \in (i + 1)..(j - 1) : text[k] \in Digits \cup {","}

\* re.search(r'20\d{2}', table_text)
HasYears(text) ==
    \E i \in 1..(Len(text) - 3) :
        /\ text[i] = "2"
        /\ text[i + 1] = "0"
        /\ text[i + 2] \in Digits
        /\ text[i + 3] \in Digits

\* table.get_text().lower()
TableText(rows) == Lower(GetText(TableHtml(rows)))

BoolToInt(b) == IF b THEN 1 ELSE 0

\* score / len(keywords): every keyword list has 8 entries
FloatDivLen(x, n) == CASE n = 8 -> FloatDiv8(x)

\* the number of places where sub occurs in s
Occurrences(s, sub) ==
    Cardinality({i \in 0..(Len(s) - Len(sub)) :
                    SubSeq(s, i + 1, i + Len(sub)) = sub})

RECURSIVE RepeatedHits(_, _)
RepeatedHits(keywords, text) ==
    IF keywords = <<>> THEN 0
    ELSE Occurrences(text, Head(keywords))
         + RepeatedHits(Tail(keywords), text)

\* a scorer that counts every occurrence of a keyword
ScoreTableRelevance_CountRepeats(context, rows, keywords) ==
    LET table_text == TableText(rows)
        raw_score ==
            FloatAdd(
                FloatAdd(
                    FloatAdd(
                        FloatTimesInt(RepeatedHits(keywords, Lower(context)),
                                      Float04),
                        FloatTimesInt(RepeatedHits(keywords, table_text),
                                      Float04)),
                    FloatTimesInt(BoolToInt(HasMoneyPattern(table_text)),
                                  Float01)),
                FloatTimesInt(BoolToInt(HasYears(table_text)), Float01))
    IN  FloatDivLen(raw_score, Len(keywords))

\* a scorer that looks for the money and year patterns in the context too
ScoreTableRelevance_PatternsInContext(context, rows, keywords) ==
    LET context_lower == Lower(context)
        table_text == TableText(rows)
        context_score == KeywordHits(keywords, context_lower)
        table_score == KeywordHits(keywords, table_text)
        has_money_pattern == HasMoneyPattern(table_text \o context_lower)
        has_years == HasYears(table_text \o context_lower)
        raw_score ==
            FloatAdd(
                FloatAdd(
                    FloatAdd(FloatTimesInt(context_score, Float04),
                             FloatTimesInt(table_score, Float04)),
                    FloatTimesInt(BoolToInt(has_money_pattern), Float01)),
                FloatTimesInt(BoolToInt(has_years), Float01))
    IN  FloatDivLen(raw_score, Len(keywords))

\* _score_table_relevance(context, table, keywords)
ScoreTableRelevance(context, rows, keywords) ==
    LET context_lower == Lower(context)
        table_text == TableText(rows)
        context_score == KeywordHits(keywords, context_lower)
        table_score == KeywordHits(keywords, table_text)
        has_money_pattern == HasMoneyPattern(table_text)
        has_years == HasYears(table_text)
        raw_score ==
            FloatAdd(
                FloatAdd(
                    FloatAdd(FloatTimesInt(context_score, Float04),
                             FloatTimesInt(table_score, Float04)),
                    FloatTimesInt(BoolToInt(has_money_pattern), Float01)),
                FloatTimesInt(BoolToInt(has_years), Float01))
    IN  FloatDivLen(raw_score, Len(keywords))

-----------------------------------------------------------------------------
(* State outside a run of the normalizer, and the files it writes *)

CsvFiles ==
    {"Removed_Empty_Rows_Columns.csv", "Consolidated_Headers.csv",
     "Removed_Duplicate_Columns.csv", "Removed_Header_Rows.csv",
     "Cleaned_Monetary_Values.csv"}

\* no file written yet
NoFile == [columns |-> <<>>, numeric |-> <<>>, rows |-> <<>>, written |-> FALSE]

\* df.to_csv(name, index=False)
ToCsv(files, name, frame) ==
    [files EXCEPT ![name] = [columns |-> frame.columns,
                             numeric |-> frame.numeric,
                             rows |-> frame.rows,
                             written |-> TRUE]]

NormIdle ==
    /\ table = <<>>
    /\ df = EmptyFrame
    /\ in_try = FALSE
    /\ error = "none"
    /\ csv = [f \in CsvFiles |-> NoFile]

MoneyIdle ==
    /\ value = <<>>
    /\ cleaned = NaN

\* results = {}
EmptyDict == [k \in {} |-> EmptyFrame]

\* nothing returned yet
NotReturned == [returned |-> FALSE, caught |-> FALSE, value |-> EmptyDict]

\* Python values a name can be bound to: a str, a DataFrame, None
PyStr(text) == [type |-> "str", str |-> text, frame |-> EmptyFrame]

PyFrame(frame) == [type |-> "DataFrame", str |-> "", frame |-> frame]

PyNone == [type |-> "NoneType", str |-> "", frame |-> EmptyFrame]

\* the three names of app.py before the assignment
NotUnpacked ==
    [error |-> "none", is_df |-> PyNone, bs_df |-> PyNone, cf_df |-> PyNone]

\* the normalizer or the cleaner called on its own, outside a locator run
LocIdle ==
    /\ copy = "edgar_utils"
    /\ soup = <<>>
    /\ stmt_idx = 0
    /\ tbl_idx = 0
    /\ best_table = 0
    /\ best_score = Float0
    /\ score = Float0
    /\ results = EmptyDict
    /\ ret = NotReturned
    /\ unpacked = NotUnpacked

\* download_filing_html not called
NotFetched == [status |-> "none", error |-> "none", body |-> ""]

FetchIdle ==
    /\ max_retries = 0
    /\ attempt = 0
    /\ responses = <<>>
    /\ fetched = NotFetched

\* data/processed without a folder
EmptyDisk == [name \in {} |-> [meta |-> <<>>, files |-> <<>>]]

\* load_latest_tables_bundle not called
NotLoaded == [status |-> "none", meta |-> <<>>, tables |-> <<>>]

IoIdle ==
    /\ clock = 0
    /\ disk = EmptyDisk
    /\ saved = <<>>
    /\ loaded = NotLoaded

\* clean_with_gemini not called
NoPayload == [status |-> "none", error |-> "none", scale |-> 0]

LlmIdle ==
    /\ generated = <<>>
    /\ payload = NoPayload

\* the locals of an instance of the normalizer before its first step
Locals(tbl) ==
    [pc |-> "norm_call", table |-> tbl, df |-> EmptyFrame, in_try |-> FALSE,
     error |-> "none"]

\* a single instance at work
ParIdle ==
    /\ running = 0
    /\ suspended = Locals(<<>>)
    /\ snapshot = [f \in CsvFiles |-> NoFile]
    /\ written_by = [f \in CsvFiles |-> {}]

\* the fetcher, the bundle store and the cleaner are not in use, and no
\* second instance
ExtIdle ==
    /\ FetchIdle
    /\ IoIdle
    /\ LlmIdle
    /\ ParIdle

-----------------------------------------------------------------------------
(* The normalizer: SECCompliantExtractor._extract_table_data, one action   *)
(* per step of it and of _clean_dataframe                                  *)

\* an exception leaves a stage: inside the try block it is swallowed
\* (except: pass) and the manual extraction follows; outside it leaves
\* _extract_table_data
Raise(name) ==
    IF in_try
    THEN /\ pc' = "manual"
         /\ UNCHANGED <<df, error>>
    ELSE /\ pc' = "raised"
         /\ error' = name
         /\ UNCHANGED df

\* try: dfs = pd.read_html(StringIO(str(table))); if dfs: df = dfs[0]
\* The parser is an input: it may fail for reasons outside the table (ok),
\* and it fails for a table without cells.
ReadHtmlStep ==
    /\ pc = "norm_call"
    /\ \E ok \in BOOLEAN :
        IF ok /\ ~ReadHtmlNoTables(table)
        THEN /\ df' = ReadHtml(table)
             /\ in_try' = TRUE
             /\ pc' = "clean"
        ELSE /\ pc' = "manual"
             /\ UNCHANGED <<df, in_try>>
    /\ UNCHANGED <<table, error, csv>>
    /\ UNCHANGED moneyVars
    /\ UNCHANGED extVars
    /\ UNCHANGED locVars

\* the manual extraction after the try block
ManualExtraction ==
    /\ pc = "manual"
    /\ in_try' = FALSE
    /\ LET rows == ManualRows(table)
       IN  IF rows = <<>>
           THEN /\ df' = EmptyFrame
                /\ pc' = "returned"
                /\ UNCHANGED error
           ELSE IF ManualFrameRaises(rows)
           THEN /\ pc' = "raised"
                /\ error' = "ValueError"
                /\ UNCHANGED df
           ELSE /\ df' = ManualFrame(rows)
                /\ pc' = "clean"
                /\ UNCHANGED error
    /\ UNCHANGED <<table, csv>>
    /\ UNCHANGED moneyVars
    /\ UNCHANGED extVars
    /\ UNCHANGED locVars

\* _clean_dataframe, lines 270-277
DropEmptyStep ==
    /\ pc = "clean"
    /\ IF IsEmpty(df)
       THEN /\ pc' = "returned"
            /\ UNCHANGED <<df, csv>>
       ELSE /\ df' = DropEmptyRowsAndColumns(df)
            /\ csv' = ToCsv(csv, "Removed_Empty_Rows_Columns.csv", df')
            /\ pc' = "consolidate"
    /\ UNCHANGED <<table, in_try, error>>
    /\ UNCHANGED moneyVars
    /\ UNCHANGED extVars
    /\ UNCHANGED locVars

\* _clean_dataframe, lines 278-280
ConsolidateStep ==
    /\ pc = "consolidate"
    /\ df' = ConsolidateHeaders(df)
    /\ csv' = ToCsv(csv, "Consolidated_Headers.csv", df')
    /\ pc' = "duplicates"
    /\ UNCHANGED <<table, in_try, error>>
    /\ UNCHANGED moneyVars
    /\ UNCHANGED extVars
    /\ UNCHANGED locVars

\* _clean_dataframe, lines 281-283
RemoveDuplicatesStep ==
    /\ pc = "duplicates"
    /\ IF RemoveDuplicateColumnsRaises(df)
       THEN /\ Raise("KeyError")
            /\ UNCHANGED csv
       ELSE /\ df' = RemoveDuplicateColumns(df)
            /\ csv' = ToCsv(csv, "Removed_Duplicate_Columns.csv", df')
            /\ pc' = "names"
            /\ UNCHANGED error
    /\ UNCHANGED <<table, in_try>>
    /\ UNCHANGED moneyVars
    /\ UNCHANGED extVars
    /\ UNCHANGED locVars

\* _clean_dataframe, lines 284-286
CleanNamesStep ==
    /\ pc = "names"
    /\ df' = CleanColumnNames(df)
    /\ csv' = ToCsv(csv, "Removed_Empty_Rows_Columns.csv", df')
    /\ pc' = "header_rows"
    /\ UNCHANGED <<table, in_try, error>>
    /\ UNCHANGED moneyVars
    /\ UNCHANGED extVars
    /\ UNCHANGED locVars

\* _clean_dataframe, lines 287-289
RemoveHeaderRowsStep ==
    /\ pc = "header_rows"
    /\ df' = RemoveHeaderRows(df)
    /\ csv' = ToCsv(csv, "Removed_Header_Rows.csv", df')
    /\ pc' = "monetary"
    /\ UNCHANGED <<table, in_try, error>>
    /\ UNCHANGED moneyVars
    /\ UNCHANGED extVars
    /\ UNCHANGED locVars

\* _clean_dataframe, lines 291-295
CleanMonetaryStep ==
    /\ pc = "monetary"
    /\ IF CleanMonetaryValuesRaises(df)
       THEN /\ Raise("AttributeError")
            /\ UNCHANGED csv
       ELSE /\ df' = CleanMonetaryValues(df)
            /\ csv' = ToCsv(csv, "Cleaned_Monetary_Values.csv", df')
            /\ pc' = "sparse"
            /\ UNCHANGED error
    /\ UNCHANGED <<table, in_try>>
    /\ UNCHANGED moneyVars
    /\ UNCHANGED extVars
    /\ UNCHANGED locVars

\* _clean_dataframe, lines 296-302, and the return of _extract_table_data
RemoveSparseStep ==
    /\ pc = "sparse"
    /\ df' = RemoveSparseRows(DropNaRows(df))
    /\ pc' = "returned"
    /\ UNCHANGED <<table, in_try, error, csv>>
    /\ UNCHANGED moneyVars
    /\ UNCHANGED extVars
    /\ UNCHANGED locVars

\* what a call returns or raises: error is "none" and frame the frame
\* returned, or error names the exception raised
Returns(frame) == [error |-> "none", frame |-> frame]

Raises(name) == [error |-> name, frame |-> EmptyFrame]

\* _clean_dataframe as one call
CleanDataframe(frame) ==
    IF IsEmpty(frame) THEN Returns(frame)
    ELSE
      LET consolidated == ConsolidateHeaders(DropEmptyRowsAndColumns(frame))
      IN  IF RemoveDuplicateColumnsRaises(consolidated)
          THEN Raises("KeyError")
          ELSE
            LET rows_removed ==
                    RemoveHeaderRows(CleanColumnNames(
                        RemoveDuplicateColumns(consolidated)))
            IN  IF CleanMonetaryValuesRaises(rows_removed)
                THEN Raises("AttributeError")
                ELSE Returns(RemoveSparseRows(DropNaRows(
                                 CleanMonetaryValues(rows_removed))))

\* the manual extraction of SECCompliantExtractor._extract_table_data
ManualExtractAndClean(tbl) ==
    LET rows == ManualRows(tbl)
    IN  IF rows = <<>> THEN Returns(EmptyFrame)
        ELSE IF ManualFrameRaises(rows) THEN Raises("ValueError")
        ELSE CleanDataframe(ManualFrame(rows))

\* SECCompliantExtractor._extract_table_data as one call; ok tells whether
\* pd.read_html works
ExtractTableData(tbl, ok) ==
    IF ok /\ ~ReadHtmlNoTables(tbl)
    THEN LET parsed == CleanDataframe(ReadHtml(tbl))
         IN  IF parsed.error = "none" THEN parsed
             ELSE ManualExtractAndClean(tbl)
    ELSE ManualExtractAndClean(tbl)

\* the cell texts of the generated raw tables
CellPool == {<<>>, <<"A">>, <<"1">>}

\* every raw table of at most n cells with rows of one cell or more
RECURSIVE TablesUpTo(_)
TablesUpTo(n) ==
    {<<>>} \cup
    UNION {{<<row>> \o rest : row \in [1..k -> CellPool],
                              rest \in TablesUpTo(n - k)} : k \in 1..n}

\* revenue and net income figures for 2023 and 2024 under a header row of
\* an empty label cell and the two years
IncomeByYear ==
    << <<<<>>, <<"2", "0", "2", "3">>, <<"2", "0", "2", "4">>>>,
       <<<<"Revenue">>, <<"$", "1", ",", "0", "0", "0">>,
         <<"$", "1", ",", "2", "0", "0">>>>,
       <<<<"Net", " ", "income">>, <<"$", "1", "0", "0">>,
         <<"$", "1", "5", "0">>>> >>

\* raw tables written out: repeated header names, header names that
\* collide after cleanup, a six-column table with sparse rows, a second
\* header row, boilerplate and separator rows, a <tr> without cells, a
\* column headed None
ExampleTables ==
    { << <<<<"Item">>, <<"FY">>, <<"FY">>>>,
         <<<<"Revenue">>, <<"1">>, <<"2">>>>,
         <<<<"Cash">>, <<"3">>, <<"3">>>> >>,
      << <<<<"Item">>, <<"FY">>, <<"FY">>>>,
         <<<<"Revenue">>, <<"1">>, <<"1">>>>,
         <<<<"Cash">>, <<"3">>, <<"3">>>> >>,
      << <<<<"Item">>, <<"FY">>, <<"FY">>>> >>,
      << <<<<"Item">>, <<"A", " ", " ", "B">>, <<"A", " ", "B">>>>,
         <<<<"Revenue">>, <<"1">>, <<"2">>>> >>,
      << <<<<"Item">>, <<>>, <<"Column", "_", "1">>>>,
         <<<<"Revenue">>, <<"1">>, <<"2">>>> >>,
      << <<<<"Item">>, <<"a">>, <<"b">>, <<"c">>, <<"d">>, <<"e">>>>,
         <<<<"Revenue">>, <<"1">>, <<"2">>, <<"3">>, <<"4">>, <<"5">>>>,
         <<<<"Cash">>, <<>>, <<>>, <<>>, <<>>, <<>>>>,
         <<<<"Net">>, <<"7">>, <<>>, <<>>, <<>>, <<>>>> >>,
      << <<<<"Item">>, <<"a">>, <<"b">>, <<"c">>, <<"d">>, <<"e">>>>,
         <<<<"Revenue">>, <<"1", "x">>, <<"2", "x">>, <<"3", "x">>,
           <<"4", "x">>, <<"5", "x">>>>,
         <<<<"Cash">>, <<>>, <<>>, <<>>, <<>>, <<>>>>,
         <<<<"Net">>, <<"7", "x">>, <<>>, <<>>, <<>>, <<>>>> >>,
      << <<<<>>, <<>>, <<>>>>,
         <<<<"Item">>, <<"FY">>, <<"FY">>>>,
         <<<<"Revenue">>, <<"1">>, <<"2">>>> >>,
      << <<<<>>, <<"2", "0", "2", "3">>, <<"2", "0", "2", "4">>>>,
         <<<<"Revenue">>, <<"$", "1", ",", "2", "3", "4">>,
           <<"(", "5", "6", ")">>>>,
         <<<<"Net", " ", "income", " ", "(", "loss", ")">>, <<"N/A">>,
           <<"7">>>> >>,
      << <<<<"Item">>, <<"X">>, <<"Y">>>>,
         <<<<"As", " ", "of">>, <<"p">>, <<"q">>>>,
         <<<<"-">>, <<"-">>, <<"-">>>>,
         <<<<"Revenue">>, <<"p">>, <<"q">>>> >>,
      << <<<<"Item">>, <<"X">>>>, <<>>, <<<<"Revenue">>, <<"p">>>> >>,
      << <<<<"Item">>, <<"X">>>>, <<<<"Revenue">>, <<"p">>, <<"q">>>> >>,
      << <<>> >>,
      << <<<<"Item">>, <<"X">>, <<"Y">>>>,
         <<<<"As", " ", "of">>, <<"p">>, <<"q">>>>,
         <<<<"-">>, <<"-">>, <<"-">>>>,
         <<<<"Revenue">>, <<>>, <<>>>> >>,
      << <<<<"Item">>, <<"None">>>>, <<<<"Revenue">>, <<"p">>>> >>,
      IncomeByYear }

TableInputs == TablesUpTo(MaxCells) \cup ExampleTables

NormInit ==
    /\ pc = "norm_call"
    /\ table \in TableInputs
    /\ df = EmptyFrame
    /\ in_try = FALSE
    /\ error = "none"
    /\ csv = [f \in CsvFiles |-> NoFile]
    /\ MoneyIdle
    /\ LocIdle
    /\ ExtIdle

NormNext ==
    \/ ReadHtmlStep
    \/ ManualExtraction
    \/ DropEmptyStep
    \/ ConsolidateStep
    \/ RemoveDuplicatesStep
    \/ CleanNamesStep
    \/ RemoveHeaderRowsStep
    \/ CleanMonetaryStep
    \/ RemoveSparseStep

SpecNormalize == NormInit /\ [][NormNext]_vars

-----------------------------------------------------------------------------
(* The locator: parse_financial_tables of table_parser.py and              *)
(* extract_financial_data of edgar_utils.py after the fetch, one action    *)
(* per loop iteration and per call                                         *)

\* tables = soup.find_all('table')
Tables == FindAllTables(soup)

\* stmt_type of the running iteration
StmtType == StatementTypes(copy)[stmt_idx]

\* for stmt_type, keywords in financial_keywords.items(): the next
\* iteration, or return results after the last
NextStatement ==
    IF stmt_idx < Len(StatementTypes(copy))
    THEN /\ stmt_idx' = stmt_idx + 1
         /\ tbl_idx' = 1
         /\ best_table' = 0
         /\ best_score' = Float0
         /\ pc' = "scan"
         /\ UNCHANGED <<score, ret>>
    ELSE /\ ret' = [returned |-> TRUE, caught |-> FALSE, value |-> results']
         /\ pc' = "done"
         /\ UNCHANGED <<stmt_idx, tbl_idx, best_table, best_score, score>>

\* a scan that lets a later table of equal score replace the best one
ScoreTable_LaterTableWins ==
    /\ pc = "scan"
    /\ tbl_idx <= Len(Tables)
    /\ LET rows == soup[Tables[tbl_idx]].rows
           context == GetTableContext(rows, soup)
       IN  score' = ScoreTableRelevance(context, rows,
                                        FinancialKeywords[StmtType])
    /\ IF ~FloatGreater(best_score, score') /\ FloatGreater(score', Float03)
       THEN /\ best_score' = score'
            /\ best_table' = tbl_idx
       ELSE UNCHANGED <<best_score, best_table>>
    /\ tbl_idx' = tbl_idx + 1
    /\ UNCHANGED <<pc, copy, soup, stmt_idx, results, ret, unpacked>>
    /\ UNCHANGED <<moneyVars, normVars>>
    /\ UNCHANGED extVars

\* for table in tables: one iteration
ScoreTable ==
    /\ pc = "scan"
    /\ tbl_idx <= Len(Tables)
    /\ LET rows == soup[Tables[tbl_idx]].rows
           context == GetTableContext(rows, soup)
       IN  score' = ScoreTableRelevance(context, rows,
                                        FinancialKeywords[StmtType])
    /\ IF FloatGreater(score', best_score) /\ FloatGreater(score', Float03)
       THEN /\ best_score' = score'
            /\ best_table' = tbl_idx
       ELSE UNCHANGED <<best_score, best_table>>
    /\ tbl_idx' = tbl_idx + 1
    /\ UNCHANGED <<pc, copy, soup, stmt_idx, results, ret, unpacked>>
    /\ UNCHANGED <<moneyVars, normVars>>
    /\ UNCHANGED extVars

\* if best_table is not None: df = _extract_table_data(best_table), the call
ExtractBest ==
    /\ pc = "scan"
    /\ tbl_idx > Len(Tables)
    /\ best_table # 0
    /\ table' = soup[Tables[best_table]].rows
    /\ df' = EmptyFrame
    /\ in_try' = FALSE
    /\ pc' = IF copy = "edgar_utils" THEN "norm_call" ELSE "raw_call"
    /\ UNCHANGED <<error, csv>>
    /\ UNCHANGED <<moneyVars, locVars>>
    /\ UNCHANGED extVars

\* a locator that records an entry for a category without a table
NoSuitableTable_StoresEmpty ==
    /\ pc = "scan"
    /\ tbl_idx > Len(Tables)
    /\ best_table = 0
    /\ results' = [k \in DOMAIN results \cup {StmtType} |->
                      IF k = StmtType THEN EmptyFrame ELSE results[k]]
    /\ NextStatement
    /\ UNCHANGED <<copy, soup, unpacked>>
    /\ UNCHANGED <<moneyVars, normVars>>
    /\ UNCHANGED extVars

\* else: no suitable table found
NoSuitableTable ==
    /\ pc = "scan"
    /\ tbl_idx > Len(Tables)
    /\ best_table = 0
    /\ UNCHANGED results
    /\ NextStatement
    /\ UNCHANGED <<copy, soup, unpacked>>
    /\ UNCHANGED <<moneyVars, normVars>>
    /\ UNCHANGED extVars

\* table_parser._extract_table_data: the frame as read, without cleaning
ExtractRaw ==
    /\ pc = "raw_call"
    /\ \E ok \in BOOLEAN :
        IF ok /\ ~ReadHtmlNoTables(table)
        THEN /\ df' = ReadHtml(table)
             /\ pc' = "returned"
             /\ UNCHANGED error
        ELSE LET rows == ManualRows(table)
             IN  IF rows = <<>>
                 THEN /\ df' = EmptyFrame
                      /\ pc' = "returned"
                      /\ UNCHANGED error
                 ELSE IF ManualFrameRaises(rows)
                 THEN /\ pc' = "raised"
                      /\ error' = "ValueError"
                      /\ UNCHANGED df
                 ELSE /\ df' = ManualFrame(rows)
                      /\ pc' = "returned"
                      /\ UNCHANGED error
    /\ UNCHANGED <<table, in_try, csv>>
    /\ UNCHANGED <<moneyVars, locVars>>
    /\ UNCHANGED extVars

\* if not df.empty: results[stmt_type] = df
StoreResult ==
    /\ pc = "returned"
    /\ results' = IF IsEmpty(df) THEN results
                  ELSE [k \in DOMAIN results \cup {StmtType} |->
                            IF k = StmtType THEN df ELSE results[k]]
    /\ NextStatement
    /\ UNCHANGED <<copy, soup, unpacked>>
    /\ UNCHANGED <<moneyVars, normVars>>
    /\ UNCHANGED extVars

\* except Exception as e: return {}
CatchException ==
    /\ pc = "raised"
    /\ ret' = [returned |-> TRUE, caught |-> TRUE, value |-> EmptyDict]
    /\ pc' = "done"
    /\ UNCHANGED <<copy, soup, stmt_idx, tbl_idx, best_table, best_score,
                   score, results, unpacked>>
    /\ UNCHANGED <<moneyVars, normVars>>
    /\ UNCHANGED extVars

\* app.py: is_df, bs_df, cf_df = parse_financial_tables(html).  Unpacking a
\* dict iterates over its keys, in insertion order; it raises ValueError
\* unless there are exactly three, and the handler's except reports it.
Unpack ==
    /\ pc = "done"
    /\ copy = "table_parser"
    /\ LET keys == SelectSeq(Categories, LAMBDA k : k \in DOMAIN ret.value)
       IN  unpacked' =
             IF Len(keys) = 3
             THEN [error |-> "none", is_df |-> PyStr(keys[1]),
                   bs_df |-> PyStr(keys[2]), cf_df |-> PyStr(keys[3])]
             ELSE [unpacked EXCEPT !.error = "ValueError"]
    /\ pc' = "unpacked"
    /\ UNCHANGED <<copy, soup, stmt_idx, tbl_idx, best_table, best_score,
                   score, results, ret>>
    /\ UNCHANGED <<moneyVars, normVars>>
    /\ UNCHANGED extVars

\* the longest document, in blocks
MaxBlocks == 3

Heading ==
    TextBlock(<<"CONSOLIDATED", " ", "STATEMENTS", " ", "OF", " ", "INCOME">>)

\* a paragraph naming four income statement keywords
Paragraph ==
    TextBlock(<<"Net", " ", "income", ",", " ", "Operating", " ", "income",
                ",", " ", "Gross", " ", "margin", ",", " ", "Earnings", " ",
                "per", " ", "share">>)

\* three income statement keywords, no amount pattern, no year
IncomeThree ==
    << <<<<"Revenue">>, <<"1", ",", "2", "3", "4">>>>,
       <<<<"Net", " ", "income">>, <<"5", "6">>>>,
       <<<<"Gross", " ", "margin">>, <<"7">>>> >>

\* three income statement keywords, amounts and a year
IncomeFull ==
    << <<<<>>, <<"2", "0", "2", "3">>>>,
       <<<<"Revenue">>, <<"$", "1", ",", "2", "3", "4">>>>,
       <<<<"Net", " ", "income">>, <<"(", "5", "6", ")">>>>,
       <<<<"Operating", " ", "income">>, <<"7">>>> >>

\* one income statement keyword
IncomeOne == << <<<<"Revenue">>, <<"1">>>> >>

\* three balance sheet keywords and a year
BalanceSheet ==
    << <<<<"Total", " ", "assets">>, <<"2", "0", "2", "3">>>>,
       <<<<"Total", " ", "liabilities">>, <<"1">>>>,
       <<<<"Current", " ", "assets">>, <<"2">>>> >>

\* the same with a row of three cells under a header of two
BalanceSheetRagged ==
    << <<<<"Total", " ", "assets">>, <<"2", "0", "2", "3">>>>,
       <<<<"Total", " ", "liabilities">>, <<"1">>, <<"9">>>>,
       <<<<"Current", " ", "assets">>, <<"2">>>> >>

\* three cash flow keywords, amounts and a year
CashFlow ==
    << <<<<"Operating", " ", "activities">>, <<"2", "0", "2", "4">>>>,
       <<<<"Net", " ", "income">>, <<"$", "5">>>>,
       <<<<"Financing">>, <<"(", "3", ")">>>> >>

\* a header row alone that names three income statement keywords and a
\* year
IncomeHeaderOnly ==
    << <<<<"Revenue">>, <<"Net", " ", "income">>,
         <<"Operating", " ", "income">>, <<"2", "0", "2", "3">>>> >>

BlockPool ==
    {Heading, Paragraph, GapBlock,
     TableBlock(IncomeThree), TableBlock(IncomeFull), TableBlock(IncomeOne),
     TableBlock(BalanceSheet), TableBlock(BalanceSheetRagged),
     TableBlock(CashFlow)}

\* a table without any financial keyword
PlainTable == << <<<<"A">>, <<"1">>>>, <<<<"B">>, <<"2">>>> >>

\* the heading CONSOLIDATED STATEMENTS OF INCOME, the table of figures by
\* year and nine tables without financial keywords
ScenarioDocument ==
    <<Heading, TableBlock(IncomeByYear)>>
    \o [i \in 1..9 |-> TableBlock(PlainTable)]

\* documents written out: a table of which the manual extraction finds
\* the header row only, alone and before a balance sheet; the scenario
ExampleDocuments ==
    { <<TableBlock(IncomeHeaderOnly)>>,
      <<Heading, TableBlock(IncomeHeaderOnly), TableBlock(BalanceSheet)>>,
      ScenarioDocument }

Documents ==
    UNION {[1..n -> BlockPool] : n \in 0..MaxBlocks} \cup ExampleDocuments

Init ==
    /\ pc = "scan"
    /\ copy \in {"table_parser", "edgar_utils"}
    /\ soup \in Documents
    /\ stmt_idx = 1
    /\ tbl_idx = 1
    /\ best_table = 0
    /\ best_score = Float0
    /\ score = Float0
    /\ results = EmptyDict
    /\ ret = NotReturned
    /\ unpacked = NotUnpacked
    /\ NormIdle
    /\ MoneyIdle
    /\ ExtIdle

Next ==
    \/ ScoreTable
    \/ ExtractBest
    \/ NoSuitableTable
    \/ ExtractRaw
    \/ ReadHtmlStep
    \/ ManualExtraction
    \/ DropEmptyStep
    \/ ConsolidateStep
    \/ RemoveDuplicatesStep
    \/ CleanNamesStep
    \/ RemoveHeaderRowsStep
    \/ CleanMonetaryStep
    \/ RemoveSparseStep
    \/ StoreResult
    \/ CatchException
    \/ Unpack

Spec == Init /\ [][Next]_vars

-----------------------------------------------------------------------------
(* Monetary value canonicalization on its own: one call of                 *)
(* _clean_monetary_value on one cell text                                  *)

\* "(1,234)"
Paren1234 == <<"(", "1", ",", "2", "3", "4", ")">>

\* "$45,678.90"
Dollar4567890 == <<"$", "4", "5", ",", "6", "7", "8", ".", "9", "0">>

\* "N/A"
NotAvailable == <<"N/A">>

\* the em dash (U+2014) used for an empty amount, as one atom
EmDash == <<"EMDASH">>

\* "Net income (loss)"
NetIncomeLoss == <<"Net", " ", "income", " ", "(", "loss", ")">>

\* "Cash, net"
CashNet == <<"Cash", ",", " ", "net">>

\* words of letters that occur in the generated cell texts
LabelWords == {"Net", "income", "loss", "Cash", "net", "Revenue"}

MoneyAlphabet ==
    {"(", ")", ",", "$", ".", "-", " ", "1", "2", "nan", "None", "Revenue"}

\* every str over the alphabet of at most n atoms
RECURSIVE StrsUpTo(_, _)
StrsUpTo(alphabet, n) ==
    IF n = 0 THEN {<<>>}
    ELSE LET shorter == StrsUpTo(alphabet, n - 1)
         IN  shorter \cup {Append(s, a) : s \in shorter, a \in alphabet}

MoneyInputs ==
    StrsUpTo(MoneyAlphabet, MaxStrLen)
        \cup {Paren1234, Dollar4567890, NotAvailable, EmDash, NetIncomeLoss,
              CashNet, <<"$", " ", "5">>, <<"nan", ",">>,
              <<"(", "$", "1", ",", "2", ".", "5", ")">>}

MoneyInit ==
    /\ pc = "money_call"
    /\ value \in MoneyInputs
    /\ cleaned = NaN
    /\ NormIdle
    /\ LocIdle
    /\ ExtIdle

\* value = self._clean_monetary_value(value)
CleanMonetary ==
    /\ pc = "money_call"
    /\ cleaned' = CleanMonetaryValue(value)
    /\ pc' = "money_done"
    /\ UNCHANGED value
    /\ UNCHANGED normVars
    /\ UNCHANGED locVars
    /\ UNCHANGED extVars

MoneyNext == CleanMonetary

SpecMoney == MoneyInit /\ [][MoneyNext]_vars

-----------------------------------------------------------------------------
(* Claims about the locator *)

\* the keywords of a list that occur in a text
KeywordsPresent(keywords, text) ==
    {k \in 1..Len(keywords) : Contains(text, keywords[k])}

\* the context and the text of the i-th table of the document
ContextOf(i) == GetTableContext(soup[Tables[i]].rows, soup)

TextOf(i) == TableText(soup[Tables[i]].rows)

\* the normalized score of the i-th table in exact arithmetic, times ten
\* times the number of keywords: 4*context_hits + 4*table_hits + has_money
\* + has_year
TenfoldScore(i, keywords) ==
    4 * Cardinality(KeywordsPresent(keywords, ContextOf(i)))
    + 4 * Cardinality(KeywordsPresent(keywords, TextOf(i)))
    + BoolToInt(HasMoneyPattern(TextOf(i)))
    + BoolToInt(HasYears(TextOf(i)))

\* C1: when the scan of a statement category ends, the table selected is one
\* of maximum normalized score among the tables of the document if that
\* maximum is strictly greater than 0.3, and no table is selected if no
\* table scores strictly above 0.3 (a table scoring exactly 0.3 included).
C1_SelectsMaximumAboveThreshold ==
    (pc = "scan" /\ tbl_idx > Len(Tables)) =>
        LET keywords == FinancialKeywords[StmtType]
            above == {i \in 1..Len(Tables) :
                         TenfoldScore(i, keywords) > 3 * Len(keywords)}
        IN  IF above = {}
            THEN best_table = 0
            ELSE /\ best_table \in above
                 /\ \A i \in 1..Len(Tables) :
                        TenfoldScore(i, keywords)
                            <= TenfoldScore(best_table, keywords)

\* (0.4*context_hits + 0.4*table_hits + 0.1*has_money + 0.1*has_year) / n
\* as Python evaluates it
FormulaScore(context_hits, table_hits, has_money, has_year, n) ==
    FloatDivLen(
        FloatAdd(
            FloatAdd(
                FloatAdd(FloatTimesInt(context_hits, Float04),
                         FloatTimesInt(table_hits, Float04)),
                FloatTimesInt(has_money, Float01)),
            FloatTimesInt(has_year, Float01)),
        n)

\* C2: the score computed for a table and a statement category is
\* (0.4*context_hits + 0.4*table_hits + 0.1*has_money + 0.1*has_year)
\* divided by the number of keywords of the category, where context_hits
\* and table_hits are the numbers of keywords of the category present in
\* the context and in the table text, each counted once however often it
\* occurs, and has_money and has_year are 0 or 1.
C2_ScoreFormula ==
    (pc = "scan" /\ tbl_idx > 1) =>
        LET i == tbl_idx - 1
            keywords == FinancialKeywords[StmtType]
        IN  score =
              FormulaScore(
                  Cardinality(KeywordsPresent(keywords, ContextOf(i))),
                  Cardinality(KeywordsPresent(keywords, TextOf(i))),
                  BoolToInt(HasMoneyPattern(TextOf(i))),
                  BoolToInt(HasYears(TextOf(i))),
                  Len(keywords))

\* C2, witness: a table has been scored whose context holds a keyword of
\* the category twice and whose text holds an amount and a year
C2_Witness ==
    /\ pc = "scan"
    /\ tbl_idx > 1
    /\ \E k \in 1..Len(FinancialKeywords[StmtType]) :
         Occurrences(ContextOf(tbl_idx - 1),
                     FinancialKeywords[StmtType][k]) >= 2
    /\ HasMoneyPattern(TextOf(tbl_idx - 1))
    /\ HasYears(TextOf(tbl_idx - 1))
    /\ FloatGreater(score, Float03)

\* C3: whatever fails while the table selected for one category is
\* extracted or normalized, the value returned holds the result of every
\* other category that was found.
C3_OtherCategoriesSurvive ==
    ret.returned =>
        \A k \in DOMAIN results :
            k \in DOMAIN ret.value /\ ret.value[k] = results[k]

-----------------------------------------------------------------------------
(* Claims about monetary value canonicalization *)

\* re-statement of "keep only these characters", independent of RemoveChars
RECURSIVE KeepOnly(_, _)
KeepOnly(s, keep) ==
    IF s = <<>> THEN <<>>
    ELSE IF Head(s) \in keep
         THEN <<Head(s)>> \o KeepOnly(Tail(s), keep)
         ELSE KeepOnly(Tail(s), keep)

AllIn(s, chars) == \A i \in 1..Len(s) : s[i] \in chars

\* a number wrapped in parentheses: "(" digits , . $ ")"
WrappedNumber(v) ==
    /\ Len(v) >= 2
    /\ v[1] = "("
    /\ v[Len(v)] = ")"
    /\ AllIn(SubSeq(v, 2, Len(v) - 1), Digits \cup {",", ".", "$"})

\* a currency amount without parentheses: digits , . $ and a minus sign
PlainAmount(v) == v # <<>> /\ AllIn(v, Digits \cup {",", ".", "$", "-"})

\* C6: a value wrapped in parentheses is cleaned to a minus sign followed by
\* its digits and decimal point (no parentheses, no thousands separators, no
\* '$'); an amount without parentheses loses '$' and commas and keeps its
\* digits, decimal point and minus sign; "(1,234)" gives "-1234" and
\* "$45,678.90" gives "45678.90".
C6_ParenthesesAndCurrency ==
    pc = "money_done" =>
        /\ value = Paren1234 => cleaned = <<"-", "1", "2", "3", "4">>
        /\ value = Dollar4567890
               => cleaned = <<"4", "5", "6", "7", "8", ".", "9", "0">>
        /\ WrappedNumber(value)
               => cleaned = <<"-">> \o KeepOnly(value, Digits \cup {"."})
        /\ PlainAmount(value)
               => cleaned = KeepOnly(value, Digits \cup {".", "-"})

C6_Witness ==
    /\ pc = "money_done"
    /\ value = Paren1234
    /\ cleaned = <<"-", "1", "2", "3", "4">>

\* C7: each of the missing-value cell texts "", "N/A", the em dash and "nan"
\* is cleaned to the empty string.
C7_MissingValuesToEmpty ==
    (pc = "money_done" /\ value \in {<<>>, NotAvailable, EmDash, <<"nan">>})
        => cleaned = <<>>

\* a textual label: words of letters (at least one) with blanks, commas and
\* parentheses between them, already stripped; no '$', no digit, and not one
\* of the texts that stand for a missing value
TextualLabel(v) ==
    /\ \E i \in 1..Len(v) : v[i] \in LabelWords
    /\ AllIn(v, LabelWords \cup {" ", ",", "(", ")"})
    /\ Strip(v) = v

\* C8: a cell value that is not numeric-looking (a textual label, also one
\* with parentheses or commas such as "Net income (loss)") is returned
\* unchanged by the cleaning.
C8_LabelsPassThrough ==
    (pc = "money_done" /\ TextualLabel(value)) => cleaned = value

-----------------------------------------------------------------------------
(* Claims about the normalizer *)

\* C4: normalize never raises, for any raw table: a stage that cannot apply
\* its heuristic (repeated header names at the duplicate-column removal,
\* rows of differing cell counts at the manual extraction, fewer than two
\* rows at the header consolidation) leaves the data as it is, and a table
\* without any extractable data gives an empty Dataset.
C4_NormalizeNeverRaises ==
    /\ pc # "raised"
    /\ error = "none"
    /\ (pc = "returned" /\ ManualRows(table) = <<>>) => IsEmpty(df)

\* C5: the column headers of every Dataset that normalize returns are
\* pairwise distinct.
C5_HeadersDistinct ==
    pc = "returned" =>
        \A i, j \in 1..NCols(df) : i # j => df.columns[i] # df.columns[j]

\* the name of column j as the duplicate-column removal reads it
StrippedName(frame, j) == Strip(LabelStr(frame.columns[j]))

\* the earlier columns that carry the name of column j
EarlierSameName(frame, j) ==
    {i \in 1..(j - 1) : StrippedName(frame, i) = StrippedName(frame, j)}

\* column j repeats an earlier name with other values than the first
\* column of that name
DiffersFromFirst(frame, j) ==
    /\ EarlierSameName(frame, j) # {}
    /\ LET first == CHOOSE i \in EarlierSameName(frame, j) :
                        \A k \in EarlierSameName(frame, j) : i <= k
       IN  ColumnValues(frame, j) # ColumnValues(frame, first)

\* the duplicate-column removal as specified: an identical repeat is
\* dropped, a differing repeat is kept as <name>_duplicate_<k>, k counting
\* the differing repeats of that name from 1
DedupAsSpecified(frame) ==
    LET kept == {j \in 1..NCols(frame) :
                    EarlierSameName(frame, j) = {} \/ DiffersFromFirst(frame, j)}
        name(j) ==
            IF EarlierSameName(frame, j) = {} THEN StrippedName(frame, j)
            ELSE StrippedName(frame, j) \o <<"_", "duplicate", "_">> \o
                 IntToStr(Cardinality(
                     {i \in EarlierSameName(frame, j) \cup {j} :
                         DiffersFromFirst(frame, i)}))
        renamed == [frame EXCEPT
                      !.columns = [j \in 1..NCols(frame) |-> name(j)]]
    IN  SelectCols(renamed, kept)

\* C9: the duplicate-column removal drops a column that repeats an earlier
\* column's name and values, and keeps a column that repeats a name with
\* other values under the name <name>_duplicate_1, _duplicate_2, ...
C9_DuplicateColumnRemoval ==
    [][pc = "duplicates" => (pc' = "names" /\ df' = DedupAsSpecified(df))]_vars

\* the cells of a row that hold something: neither missing nor ""
NonEmptyCount(row) ==
    Cardinality({j \in 1..Len(row) : row[j] # NaN /\ row[j] # <<>>})

\* C10: every row of the Dataset that normalize returns has at least
\* max(2, number_of_columns // 3) non-empty cells, an empty string counting
\* as empty (with 6 columns: a row with 1 non-empty cell is gone, a row
\* with 2 stays).
C10_NoSparseRows ==
    pc = "returned" =>
        \A r \in 1..NRows(df) :
            /\ NonEmptyCount(df.rows[r]) >= 2
            /\ NonEmptyCount(df.rows[r]) >= NCols(df) \div 3

\* the cell holds nothing: a missing value, or a text that is empty or all
\* whitespace
Blank(c) == c = NaN \/ Strip(c) = <<>>

\* C11: in every Dataset that normalize returns no row has only blank cells
\* and no column has only blank cells, a blank cell being a missing value
\* or an empty or whitespace text.
C11_NoEmptyRowsOrColumns ==
    (pc = "returned" /\ ~IsEmpty(df)) =>
        /\ \A r \in 1..NRows(df) : \E j \in 1..NCols(df) : ~Blank(df.rows[r][j])
        /\ \A j \in 1..NCols(df) : \E r \in 1..NRows(df) : ~Blank(df.rows[r][j])

-----------------------------------------------------------------------------
(* Claims about the results of the locator *)

\* C12: when the extraction of the table selected for a category returns,
\* the results hold an entry for that category, an empty Dataset when the
\* table gave no usable rows or columns, so that the case differs from the
\* absent entry of a category for which no table qualified.
C12_EmptyResultIsExplicit ==
    [][pc = "returned" => StmtType \in DOMAIN results']_vars

\* the Dataset of a category in the value returned, None when absent
DatasetOf(k) ==
    IF k \in DOMAIN ret.value THEN PyFrame(ret.value[k]) ELSE PyNone

\* C13: the three-way unpacking of what parse_financial_tables returns
\* succeeds and binds is_df, bs_df and cf_df to the Datasets of
\* income_statement, balance_sheet and cash_flow, None standing for an
\* absent category; also when a category is not found and when parsing
\* raised internally.
C13_TripleInFixedOrder ==
    pc = "unpacked" =>
        /\ unpacked.error = "none"
        /\ unpacked.is_df = DatasetOf("income_statement")
        /\ unpacked.bs_df = DatasetOf("balance_sheet")
        /\ unpacked.cf_df = DatasetOf("cash_flow")

\* C14: for the document with the heading CONSOLIDATED STATEMENTS OF INCOME
\* before a table of revenue and net income figures for 2023 and 2024 and
\* nine tables without financial keywords, the table of figures is selected
\* for income_statement and no table is selected for balance_sheet and
\* cash_flow.
C14_ScenarioSelection ==
    (soup = ScenarioDocument /\ pc = "scan" /\ tbl_idx > Len(Tables)) =>
        best_table = IF StmtType = "income_statement" THEN 1 ELSE 0

-----------------------------------------------------------------------------
(* Claims about the normalizer, continued *)

\* C15: normalize on the table whose header row is an empty label cell
\* followed by the year labels 2023 and 2024, with rows of revenue and net
\* income figures, returns the headers Description, 2023, 2024 and the rows
\* with their amounts cleaned to plain numbers.
C15_ScenarioNormalization ==
    (table = IncomeByYear /\ pc = "returned") =>
        /\ df.columns =
             << <<"Description">>, <<"2", "0", "2", "3">>,
                <<"2", "0", "2", "4">> >>
        /\ df.rows =
             << << <<"Revenue">>, <<"1", "0", "0", "0">>,
                   <<"1", "2", "0", "0">> >>,
                << <<"Net", " ", "income">>, <<"1", "0", "0">>,
                   <<"1", "5", "0">> >> >>

\* the Dataset as a minimal table: a row of the headers, then the rows, a
\* missing value as an empty cell
Render(frame) ==
    <<[j \in 1..NCols(frame) |-> LabelStr(frame.columns[j])]>>
    \o [r \in 1..NRows(frame) |->
          [j \in 1..NCols(frame) |-> FragmentStr(frame.rows[r][j])]]

\* C16: normalizing the Dataset that normalize returns, rendered back as a
\* minimal table, succeeds and gives a Dataset with no fewer rows and no
\* fewer columns, whichever way the table is read.
C16_IdempotentShape ==
    pc = "returned" =>
        \A ok \in BOOLEAN :
            LET again == ExtractTableData(Render(df), ok)
            IN  /\ again.error = "none"
                /\ NRows(again.frame) >= NRows(df)
                /\ NCols(again.frame) >= NCols(df)

\* header consolidation as specified: it applies when the first row has at
\* most 2 non-empty cells and the second row strictly more; the new header
\* of a column joins the two cells with one space if both are non-empty
\* and differ, else takes the non-empty one, else is Column_<index>; the
\* two rows leave the data body
ConsolidateAsSpecified(frame) ==
    LET name(j) ==
            LET a == Strip(FragmentStr(frame.rows[1][j]))
                b == Strip(FragmentStr(frame.rows[2][j]))
            IN  IF a # <<>> /\ b # <<>> /\ a # b THEN a \o <<" ">> \o b
                ELSE IF b # <<>> THEN b
                ELSE IF a # <<>> THEN a
                ELSE <<"Column", "_">> \o IntToStr(j - 1)
    IN  IF /\ NRows(frame) >= 2
           /\ NonEmptyCount(frame.rows[1]) <= 2
           /\ NonEmptyCount(frame.rows[2]) > NonEmptyCount(frame.rows[1])
        THEN [frame EXCEPT
                !.columns = [j \in 1..NCols(frame) |-> name(j)],
                !.rows = SubSeq(frame.rows, 3, NRows(frame))]
        ELSE frame

\* C17: the header consolidation stage rewrites the header and removes the
\* two rows exactly when the first row has at most 2 non-empty cells and
\* the second row has strictly more non-empty cells than the first, with
\* the combined names as specified, and otherwise leaves the header and
\* all rows as they were.
C17_HeaderConsolidation ==
    [][pc = "consolidate" => df' = ConsolidateAsSpecified(df)]_vars


\* the cleaned text of a header: artifacts removed, whitespace runs
\* collapsed to one space, trimmed
CleanedText(col) ==
    Strip(CollapseWhitespace(
        RemoveArtifact(RemoveArtifact(Strip(LabelStr(col)),
                                      <<"Unnamed", ":", " ">>),
                       <<"level", "_">>)))

\* the header of column i (counted from 0) as specified
HeaderAsSpecified(i, col) ==
    IF CleanedText(col) = <<>> \/ IsDigit(CleanedText(col))
    THEN IF i = 0 THEN <<"Description">> ELSE <<"Column", "_">> \o IntToStr(i)
    ELSE CleanedText(col)

\* C18: the header cleanup stage gives every column its cleaned text
\* (whitespace runs collapsed, trimmed, "Unnamed: N" and "level_N"
\* removed), except that a header that is empty or purely numeric after
\* the cleanup becomes Description in the first column and Column_<index>
\* in any other; every other header keeps its cleaned text.
C18_HeaderCleanup ==
    [][pc = "names" =>
        \A j \in 1..NCols(df) :
            df'.columns[j] = HeaderAsSpecified(j - 1, df.columns[j])]_vars


\* the boilerplate phrases of a restated heading
BoilerplatePhrases ==
    { <<"year", " ", "ended">>, <<"months", " ", "ended">>, <<"as", " ", "of">>,
      <<"in", " ", "millions">>, <<"in", " ", "thousands">>, <<"unaudited">>,
      <<"see", " ", "accompanying">> }

\* the lowercased text of a row contains a boilerplate phrase
HasBoilerplate(row) ==
    \E phrase \in BoilerplatePhrases :
        Contains(Lower(JoinWithBlank(SelectSeq(row, LAMBDA v : v # NaN))),
                 phrase)

\* the non-empty cells of a row
Filled(row) == SelectSeq(row, LAMBDA v : ~Blank(v))

\* more than one non-empty cell, and all of them the same value
RepeatedValue(row) ==
    /\ Len(Filled(row)) > 1
    /\ \A i \in 1..Len(Filled(row)) : Filled(row)[i] = Filled(row)[1]

\* the rows of a frame, as a set
RowSet(frame) == {frame.rows[r] : r \in 1..NRows(frame)}

ManualAsSpecified(tbl) ==
    LET with_cells == SelectSeq(tbl, LAMBDA row : Len(row) > 0)
        text(r, j) == IF j <= Len(with_cells[r]) THEN Strip(with_cells[r][j])
                      ELSE NaN
        n == Len(with_cells[1])
    IN  IF with_cells = <<>> THEN EmptyFrame
        ELSE [columns |-> [j \in 1..n |-> text(1, j)],
              numeric |-> [j \in 1..n |-> FALSE],
              rows    |-> [r \in 1..(Len(with_cells) - 1) |->
                             [j \in 1..n |-> text(r + 1, j)]]]

\* C20: whenever the structured parsing of a raw table fails, normalize
\* goes on to the manual extraction without an error, and the manual
\* extraction recovers the table: it takes the first row that has a cell
\* as header and the other rows that have a cell as data, and no failure
\* reaches the caller.
C20_MalformedTableRecovery ==
    [][/\ (pc = "norm_call" /\ ~in_try') => (pc' = "manual" /\ error' = "none")
       /\ pc = "manual" => /\ pc' # "raised"
                           /\ error' = "none"
                           /\ df' = ManualAsSpecified(table)]_vars


-----------------------------------------------------------------------------
(* Claims about the locator, continued *)

\* the document has no table block
NoTables == \A b \in 1..Len(soup) : soup[b].kind # "table"

\* C22: for a document that contains zero tables the locator returns no
\* entry for any statement category.
C22_NoTablesNoEntries ==
    (pc \in {"done", "unpacked"} /\ NoTables) =>
        /\ ret.returned
        /\ DOMAIN ret.value = {}

\* the locator has returned from a document of text blocks only
C22_Witness ==
    /\ pc = "done"
    /\ NoTables
    /\ Len(soup) = MaxBlocks
    /\ ret.returned /\ ~ret.caught


\* the i-th table has none of the running category's keywords in its
\* context or in its own text, and no money or year pattern
Keyless(i) ==
    /\ KeywordsPresent(FinancialKeywords[StmtType], ContextOf(i)) = {}
    /\ KeywordsPresent(FinancialKeywords[StmtType], TextOf(i)) = {}
    /\ ~HasMoneyPattern(TextOf(i))
    /\ ~HasYears(TextOf(i))

\* C23: a table whose context and own text contain none of a category's
\* keywords and no money or year pattern scores 0 for that category and is
\* never the table selected for it, whatever other tables the document
\* contains.
C23_KeylessTableNeverSelected ==
    /\ (pc = "scan" /\ tbl_idx > 1 /\ Keyless(tbl_idx - 1)) => score = Float0
    /\ \A i \in 1..Len(Tables) : Keyless(i) => best_table # i

\* a keyless table has just been scored while another table of the
\* document, with figures by year, is the best so far
C23_Witness ==
    /\ pc = "scan"
    /\ tbl_idx > 1
    /\ Keyless(tbl_idx - 1)
    /\ best_table # 0
    /\ HasYears(TextOf(best_table))


\* the score of the i-th table for the running category, by the formula
ScoreOf(i) ==
    FormulaScore(
        Cardinality(KeywordsPresent(FinancialKeywords[StmtType], ContextOf(i))),
        Cardinality(KeywordsPresent(FinancialKeywords[StmtType], TextOf(i))),
        BoolToInt(HasMoneyPattern(TextOf(i))),
        BoolToInt(HasYears(TextOf(i))),
        Len(FinancialKeywords[StmtType]))

\* the tables whose score for the running category is above the threshold
\* and is the largest of the document
MaximalTables ==
    {i \in 1..Len(Tables) :
        /\ FloatGreater(ScoreOf(i), Float03)
        /\ \A j \in 1..Len(Tables) : ~FloatGreater(ScoreOf(j), ScoreOf(i))}

BlockWidth(block) ==
    LET html == BlockHtml(block)
    IN  IF html = <<>> THEN 0 ELSE EndOffsets(html, 1, Len(html), 0)[Len(html)]

\* the block at which the serialization of the i-th table first occurs
FirstOccurrence(i) ==
    CHOOSE b \in 1..Len(soup) :
        /\ soup[b] = soup[Tables[i]]
        /\ \A c \in 1..(b - 1) : soup[c] # soup[Tables[i]]

\* the text of a block, lowercased
BlockText(block) == Lower(GetText(BlockHtml(block)))

-----------------------------------------------------------------------------
(* Claims about _clean_monetary_value, continued *)

\* C29: cleaning a cleaned value again gives the same string,
\* clean(clean(v)) = clean(v), for every cell text v.
C29_CleanIsIdempotent ==
    pc = "money_done" => CleanMonetaryValue(cleaned) = cleaned


-----------------------------------------------------------------------------
(* Claims about the normalizer, continued *)

\* the frame as it left the duplicate-column removal
Deduplicated == csv["Removed_Duplicate_Columns.csv"]

\* C30: for a table left with fewer than 2 columns by the duplicate-column
\* removal, normalize returns a Dataset with zero rows, whatever its rows
\* contain, because no row can reach the threshold of 2 non-empty cells.
C30_NarrowTableHasNoRows ==
    (/\ pc = "returned"
     /\ \/ NCols(df) < 2
        \/ Deduplicated.written /\ Len(Deduplicated.columns) < 2)
        => NRows(df) = 0

\* a table of one column and two rows of text went through the
\* duplicate-column removal and normalize has returned
C30_Witness ==
    /\ pc = "returned"
    /\ Deduplicated.written
    /\ Len(Deduplicated.columns) = 1
    /\ Len(Deduplicated.rows) >= 2
    /\ \A r \in 1..Len(Deduplicated.rows) : ~Blank(Deduplicated.rows[r][1])
    /\ NRows(df) = 0


-----------------------------------------------------------------------------
(* The fetcher: download_filing_html of edgar_client.py, and                *)
(* SECCompliantExtractor._fetch_with_retry, which has the same loop.  One   *)
(* action per way an iteration of the loop can go; the server and the       *)
(* network are inputs.  The sleeps change no state and are left out.        *)

\* the largest max_retries of a call
MaxRetries == 3

\* response.text of the answers with status 200
Bodies == {"<html>10-K</html>", "<html>10-Q</html>"}

\* the Retry-After header of a 429 answer: absent, a number of seconds, or
\* an HTTP date
RetryAfterHeaders == {"absent", "120", "Wed, 21 Oct 2026 07:28:00 GMT"}

\* int(text) raises ValueError unless text is a decimal number
IntRaises(text) == text \notin {"120"}

\* an answer of the server, or the exception requests.get raised
Response(status_code, body, retry_after) ==
    [status_code |-> status_code, body |-> body, retry_after |-> retry_after]

RequestFailed == Response(0, "", "absent")

\* for attempt in range(max_retries + 1): the next iteration
NextAttempt ==
    /\ attempt' = attempt + 1
    /\ UNCHANGED <<pc, fetched>>

\* status 200: return response.text
RequestSucceeds ==
    /\ pc = "fetch"
    /\ attempt <= max_retries
    /\ \E body \in Bodies :
        /\ responses' = Append(responses, Response(200, body, "absent"))
        /\ fetched' = [status |-> "returned", error |-> "none", body |-> body]
    /\ pc' = "fetch_returned"
    /\ UNCHANGED <<max_retries, attempt>>
    /\ UNCHANGED <<moneyVars, normVars, locVars>>
    /\ UNCHANGED otherThanFetch

\* status 429: retry_after = int(response.headers.get('Retry-After',
\* base_delay * (attempt + 1))); time.sleep(retry_after).  The ValueError of
\* int() is no RequestException and leaves the function.
RequestRateLimited ==
    /\ pc = "fetch"
    /\ attempt <= max_retries
    /\ \E header \in RetryAfterHeaders :
        /\ responses' = Append(responses, Response(429, "", header))
        /\ IF header # "absent" /\ IntRaises(header)
           THEN /\ fetched' = [status |-> "raised", error |-> "ValueError",
                               body |-> ""]
                /\ pc' = "fetch_raised"
                /\ UNCHANGED attempt
           ELSE NextAttempt
    /\ UNCHANGED max_retries
    /\ UNCHANGED <<moneyVars, normVars, locVars>>
    /\ UNCHANGED otherThanFetch

\* any other status: print it and go on
RequestOtherStatus ==
    /\ pc = "fetch"
    /\ attempt <= max_retries
    /\ \E status_code \in {404, 500} :
        responses' = Append(responses, Response(status_code, "", "absent"))
    /\ NextAttempt
    /\ UNCHANGED max_retries
    /\ UNCHANGED <<moneyVars, normVars, locVars>>
    /\ UNCHANGED otherThanFetch

\* except requests.exceptions.RequestException: print it, sleep, go on
RequestRaises ==
    /\ pc = "fetch"
    /\ attempt <= max_retries
    /\ responses' = Append(responses, RequestFailed)
    /\ NextAttempt
    /\ UNCHANGED max_retries
    /\ UNCHANGED <<moneyVars, normVars, locVars>>
    /\ UNCHANGED otherThanFetch

\* after the loop: raise Exception("Failed to fetch ...")
FetchGivesUp ==
    /\ pc = "fetch"
    /\ attempt > max_retries
    /\ fetched' = [status |-> "raised", error |-> "Exception", body |-> ""]
    /\ pc' = "fetch_raised"
    /\ UNCHANGED <<max_retries, attempt, responses>>
    /\ UNCHANGED <<moneyVars, normVars, locVars>>
    /\ UNCHANGED otherThanFetch

FetchInit ==
    /\ pc = "fetch"
    /\ max_retries \in 0..MaxRetries
    /\ attempt = 0
    /\ responses = <<>>
    /\ fetched = NotFetched
    /\ MoneyIdle
    /\ NormIdle
    /\ LocIdle
    /\ IoIdle
    /\ LlmIdle
    /\ ParIdle

FetchNext ==
    \/ RequestSucceeds
    \/ RequestRateLimited
    \/ RequestOtherStatus
    \/ RequestRaises
    \/ FetchGivesUp

SpecFetch == FetchInit /\ [][FetchNext]_vars

\* the HTTP requests issued so far
Requests == Len(responses)

\* C25: download_filing_html issues at most max_retries + 1 HTTP requests;
\* it returns the body of the first answer with status 200 and issues no
\* request after it; when no attempt is answered with status 200 it raises
\* after exactly max_retries + 1 attempts.
C25_FetchAttempts ==
    /\ Requests <= max_retries + 1
    /\ pc = "fetch_returned" =>
        /\ responses[Requests].status_code = 200
        /\ \A i \in 1..(Requests - 1) : responses[i].status_code # 200
        /\ fetched.status = "returned"
        /\ fetched.body = responses[Requests].body
    /\ pc = "fetch_raised" =>
        /\ \A i \in 1..Requests : responses[i].status_code # 200
        /\ fetched.status = "raised"
        /\ Requests = max_retries + 1


-----------------------------------------------------------------------------
(* The bundle store: save_tables_bundle and load_latest_tables_bundle of    *)
(* utils/io.py on the folders of data/processed.  A bundle is its ticker,   *)
(* its accession and, for each statement, the revision of the table it      *)
(* holds or 0 for None.                                                     *)

\* the most save_tables_bundle calls of a run, and the last second
MaxSaves == 3

MaxClock == 2

\* tickers and accessions, in the order of str comparison
Tickers == <<"AAPL", "MSFT">>

Accessions == <<"000032019324000123", "000078901925000064">>

CategorySet == {"income_statement", "balance_sheet", "cash_flow"}

\* the tables of the bundles saved: all three statements in two
\* revisions, and the income statement alone
TableChoices ==
    { [k \in CategorySet |-> 1], [k \in CategorySet |-> 2],
      [k \in CategorySet |-> IF k = "income_statement" THEN 3 ELSE 0] }

Bundles ==
    [ticker : {Tickers[i] : i \in 1..Len(Tickers)},
     accession : {Accessions[i] : i \in 1..Len(Accessions)},
     tables : TableChoices]

\* the position of an element in a sequence without repetition
IndexOf(seq, x) == CHOOSE i \in 1..Len(seq) : seq[i] = x

\* _safe_name: ticker, accession without dashes and the time to the second
SafeName(b, now) == [ticker |-> b.ticker, accession |-> b.accession, time |-> now]

\* a < b for two folder names as str: the ticker decides, then the
\* accession, then the time stamp
NameLess(a, b) ==
    LET ta == IndexOf(Tickers, a.ticker)
        tb == IndexOf(Tickers, b.ticker)
        aa == IndexOf(Accessions, a.accession)
        ab == IndexOf(Accessions, b.accession)
    IN  \/ ta < tb
        \/ ta = tb /\ aa < ab
        \/ ta = tb /\ aa = ab /\ a.time < b.time

\* the files of a folder after the bundle is written into it: meta.json
\* rewritten, a CSV file written for every table that is not None, the
\* other files left as they are
WriteBundle(folder, b) ==
    [meta |-> [ticker |-> b.ticker, accession |-> b.accession],
     files |-> [k \in CategorySet |->
                  IF b.tables[k] # 0 THEN b.tables[k] ELSE folder.files[k]]]

\* a folder just made by mkdir
NewFolder == [meta |-> <<>>, files |-> [k \in CategorySet |-> 0]]

\* save_tables_bundle(bundle)
SaveTablesBundle ==
    /\ pc = "io"
    /\ Len(saved) < MaxSaves
    /\ \E b \in Bundles :
        LET name == SafeName(b, clock)
            folder == IF name \in DOMAIN disk THEN disk[name] ELSE NewFolder
        IN  /\ disk' = [n \in DOMAIN disk \cup {name} |->
                          IF n = name THEN WriteBundle(folder, b) ELSE disk[n]]
            /\ saved' = Append(saved, [bundle |-> b, folder |-> name])
    /\ UNCHANGED <<pc, clock, loaded>>
    /\ UNCHANGED <<moneyVars, normVars, locVars>>
    /\ UNCHANGED otherThanIo

\* a second passes
ClockTick ==
    /\ pc = "io"
    /\ clock < MaxClock
    /\ clock' = clock + 1
    /\ UNCHANGED <<pc, disk, saved, loaded>>
    /\ UNCHANGED <<moneyVars, normVars, locVars>>
    /\ UNCHANGED otherThanIo

\* load_latest_tables_bundle()
LoadLatestTablesBundle ==
    /\ pc = "io"
    /\ IF DOMAIN disk = {}
       THEN loaded' = [status |-> "None", meta |-> <<>>, tables |-> <<>>]
       ELSE LET folder == CHOOSE n \in DOMAIN disk :
                              \A o \in DOMAIN disk : ~NameLess(n, o)
            IN  loaded' = [status |-> "bundle", meta |-> disk[folder].meta,
                           tables |-> disk[folder].files]
    /\ pc' = "io_loaded"
    /\ UNCHANGED <<clock, disk, saved>>
    /\ UNCHANGED <<moneyVars, normVars, locVars>>
    /\ UNCHANGED otherThanIo

IoInit ==
    /\ pc = "io"
    /\ IoIdle
    /\ MoneyIdle
    /\ NormIdle
    /\ LocIdle
    /\ FetchIdle
    /\ LlmIdle
    /\ ParIdle

IoNext ==
    \/ SaveTablesBundle
    \/ ClockTick
    \/ LoadLatestTablesBundle

SpecIo == IoInit /\ [][IoNext]_vars

\* what a folder holds is the bundle
Holds(folder, b) ==
    /\ folder.meta = [ticker |-> b.ticker, accession |-> b.accession]
    /\ folder.files = b.tables

\* C26: after any sequence of save_tables_bundle calls
\* load_latest_tables_bundle returns the bundle saved last, and every
\* bundle saved earlier is still in the folder it was saved to.
C26_LatestBundleLoaded ==
    /\ \A i \in 1..Len(saved) :
           /\ saved[i].folder \in DOMAIN disk
           /\ Holds(disk[saved[i].folder], saved[i].bundle)
    /\ (pc = "io_loaded" /\ saved # <<>>) =>
           /\ loaded.status = "bundle"
           /\ loaded.meta = [ticker |-> saved[Len(saved)].bundle.ticker,
                             accession |-> saved[Len(saved)].bundle.accession]
           /\ loaded.tables = saved[Len(saved)].bundle.tables


-----------------------------------------------------------------------------
(* The cleaner: clean_with_gemini and _repair_json_response of              *)
(* cleaning/llm_cleaner.py.  The model's answers are inputs: the call       *)
(* raises, or the answer has no text, or its text is no JSON, or JSON that  *)
(* is no object, or a JSON object with or without the fields of Payload     *)
(* and with some scale.                                                     *)

\* the scales check_scale accepts
ValidScales == {1, 1000, 1000000, 1000000000}

\* the scales of the answers
AnswerScales == ValidScales \cup {0, 100, 1000000000 + 1}

Answer(kind, fields_ok, scale) ==
    [kind |-> kind, fields_ok |-> fields_ok, scale |-> scale]

Answers ==
    {Answer(kind, TRUE, 0) :
        kind \in {"api_error", "no_text", "not_json", "json_array"}}
    \cup {Answer("json_object", ok, scale) :
            ok \in BOOLEAN, scale \in AnswerScales}

\* a validator that lets every scale pass
PayloadValidates_AnyScale(answer) == answer.fields_ok

\* Payload(**data) validates: the fields have their types and check_scale
\* accepts the scale
PayloadValidates(answer) == answer.fields_ok /\ answer.scale \in ValidScales

\* the exception of parsing and validating an answer, "none" without one
ParseError(answer) ==
    CASE answer.kind = "api_error" -> "GoogleAPIError"
      [] answer.kind = "no_text" -> "ValueError"
      [] answer.kind = "not_json" -> "JSONDecodeError"
      [] answer.kind = "json_array" -> "TypeError"
      [] OTHER -> IF PayloadValidates(answer) THEN "none"
                  ELSE "ValidationError"

\* response = model.generate_content(...); data = json.loads(response_text);
\* payload = Payload(**data); return payload.  JSONDecodeError and
\* ValidationError lead to the repair, any other exception is raised again.
FirstCall ==
    /\ pc = "llm_first"
    /\ \E answer \in Answers :
        /\ generated' = Append(generated, answer)
        /\ IF ParseError(answer) = "none"
           THEN /\ payload' = [status |-> "returned", error |-> "none",
                               scale |-> answer.scale]
                /\ pc' = "llm_returned"
           ELSE IF ParseError(answer) \in {"JSONDecodeError", "ValidationError"}
           THEN /\ pc' = "llm_repair"
                /\ UNCHANGED payload
           ELSE /\ payload' = [status |-> "raised",
                               error |-> ParseError(answer), scale |-> 0]
                /\ pc' = "llm_raised"
    /\ UNCHANGED <<moneyVars, normVars, locVars>>
    /\ UNCHANGED otherThanLlm

\* _repair_json_response: one more generate_content; every exception
\* becomes RuntimeError
RepairCall ==
    /\ pc = "llm_repair"
    /\ \E answer \in Answers :
        /\ generated' = Append(generated, answer)
        /\ IF ParseError(answer) = "none"
           THEN /\ payload' = [status |-> "returned", error |-> "none",
                               scale |-> answer.scale]
                /\ pc' = "llm_returned"
           ELSE /\ payload' = [status |-> "raised", error |-> "RuntimeError",
                               scale |-> 0]
                /\ pc' = "llm_raised"
    /\ UNCHANGED <<moneyVars, normVars, locVars>>
    /\ UNCHANGED otherThanLlm

LlmInit ==
    /\ pc = "llm_first"
    /\ LlmIdle
    /\ MoneyIdle
    /\ NormIdle
    /\ LocIdle
    /\ FetchIdle
    /\ IoIdle
    /\ ParIdle

LlmNext ==
    \/ FirstCall
    \/ RepairCall

SpecLlm == LlmInit /\ [][LlmNext]_vars

\* the answer is a text that parses as JSON and passes the schema
\* validation
PassesSchema(answer) ==
    /\ answer.kind = "json_object"
    /\ answer.fields_ok
    /\ answer.scale \in {1, 1000, 1000000, 1000000000}

\* the answer is a text that fails JSON parsing or schema validation
FailsParsing(answer) ==
    \/ answer.kind = "not_json"
    \/ answer.kind = "json_object" /\ ~PassesSchema(answer)

\* C27: clean_with_gemini calls the model at most twice; the second call
\* is made only if the first answer failed JSON parsing or schema
\* validation; a Payload returned has passed the validation, so its scale
\* is 1, 1000, 1000000 or 1000000000; if the repair answer fails too the
\* call ends with an error and no payload.
C27_AtMostOneRepair ==
    /\ Len(generated) <= 2
    /\ Len(generated) = 2 => FailsParsing(generated[1])
    /\ pc = "llm_repair" => FailsParsing(generated[1])
    /\ pc = "llm_returned" =>
        /\ payload.status = "returned"
        /\ PassesSchema(generated[Len(generated)])
        /\ payload.scale = generated[Len(generated)].scale
        /\ payload.scale \in {1, 1000, 1000000, 1000000000}
    /\ (Len(generated) = 2 /\ ~PassesSchema(generated[2])) =>
        /\ pc = "llm_raised"
        /\ payload.status = "raised"

\* the first answer had a scale of 100, the repair answer one of 1000 and
\* its payload is returned
C27_Witness ==
    /\ pc = "llm_returned"
    /\ Len(generated) = 2
    /\ generated[1] = Answer("json_object", TRUE, 100)
    /\ payload.scale = 1000

-----------------------------------------------------------------------------
(* Two instances of SECCompliantExtractor normalizing two tables at the    *)
(* same time in one working directory. Each instance has its own table,    *)
(* df and position; the CSV files of _clean_dataframe are named by string  *)
(* literals relative to the working directory, so both instances address   *)
(* the same files.                                                         *)

\* the raw tables the two instances are given: no rows, a one-row table, a
\* table with a repeated header name, a table whose second row is
\* shorter, and the income figures
ParallelTables ==
    { <<>>,
      << <<<<"A">>, <<"1">>>> >>,
      << <<<<"A">>, <<"A">>, <<"A">>>>, <<<<"A">>, <<"1">>, <<"1">>>> >>,
      << <<<<"A">>, <<"1">>>>, <<<<"A">>>> >>,
      IncomeByYear }

\* the locals of the running instance
Current ==
    [pc |-> pc, table |-> table, df |-> df, in_try |-> in_try,
     error |-> error]

\* _extract_table_data has returned or raised
Finished(locals) == locals.pc \in {"returned", "raised"}

\* the files whose content the running instance has changed since it took
\* over (df.to_csv(<literal name>) in _clean_dataframe)
ChangedFiles == {f \in CsvFiles : csv[f] # snapshot[f]}

\* the instances that have written file f
Writers(f) ==
    written_by[f] \cup (IF f \in ChangedFiles THEN {running} ELSE {})

\* the scheduler takes the running instance off and puts the other one on:
\* the locals change places, the files stay as they are
Switch ==
    /\ running # 0
    /\ ~Finished(suspended)
    /\ running' = 3 - running
    /\ suspended' = Current
    /\ pc' = suspended.pc
    /\ table' = suspended.table
    /\ df' = suspended.df
    /\ in_try' = suspended.in_try
    /\ error' = suspended.error
    /\ written_by' = [f \in CsvFiles |-> Writers(f)]
    /\ snapshot' = csv
    /\ UNCHANGED csv
    /\ UNCHANGED moneyVars
    /\ UNCHANGED locVars
    /\ UNCHANGED otherThanPar

ParInit ==
    /\ pc = "norm_call"
    /\ table \in ParallelTables
    /\ df = EmptyFrame
    /\ in_try = FALSE
    /\ error = "none"
    /\ csv = [f \in CsvFiles |-> NoFile]
    /\ running = 1
    /\ \E other \in ParallelTables \ {table} : suspended = Locals(other)
    /\ snapshot = csv
    /\ written_by = [f \in CsvFiles |-> {}]
    /\ MoneyIdle
    /\ LocIdle
    /\ FetchIdle
    /\ IoIdle
    /\ LlmIdle

ParNext ==
    \/ ReadHtmlStep
    \/ ManualExtraction
    \/ DropEmptyStep
    \/ ConsolidateStep
    \/ RemoveDuplicatesStep
    \/ CleanNamesStep
    \/ RemoveHeaderRowsStep
    \/ CleanMonetaryStep
    \/ RemoveSparseStep
    \/ Switch

SpecParallel == ParInit /\ [][ParNext]_vars

\* what a finished instance hands back
ResultOf(locals) ==
    IF locals.pc = "raised" THEN Raises(locals.error) ELSE Returns(locals.df)

\* a finished instance has the result it has when it runs alone
SameAsAlone(locals) ==
    Finished(locals) =>
        \E ok \in BOOLEAN : ResultOf(locals) = ExtractTableData(locals.table, ok)

ResultsAsAlone ==
    running # 0 => (SameAsAlone(Current) /\ SameAsAlone(suspended))

\* no file has been written by both instances
NoSharedFile ==
    running # 0 => \A f \in CsvFiles : Cardinality(Writers(f)) <= 1

\* C21: two instances normalizing two different tables at the same time
\* each end with the result they have alone, under every interleaving of
\* their steps, and no location is written by both of them.
C21_NoSharedMutableState ==
    /\ ResultsAsAlone
    /\ NoSharedFile

=============================================================================
